---- MODULE Spec2Model ----
(***************************************************************************)
(* The tool-dispatch pipeline of the Horizon AI backend (index.js): the    *)
(* POST /analyze handler, the tool executors it dispatches to, the         *)
(* macro-indicator cache and the audio post-processing step.               *)
(*                                                                         *)
(* The cache and the process environment live across requests.  Every      *)
(* `await` of a handler is a suspension point: the action that resumes the *)
(* handler runs all of the synchronous code up to the next `await` or to   *)
(* the response.  Spec runs one request at a time on /analyze, /ocr and    *)
(* /economic-data; ConcSpec and LookupSpec interleave two requests,        *)
(* TimedSpec lets the cache's clock run, and SeriesSpec, NewsSpec,         *)
(* MacroSpec, HistoricalSpec and ChartSpec apply one function on its own   *)
(* (the last one ChartService.getMultipleStocksData of chartService.js).   *)
(***************************************************************************)
EXTENDS Integers, Sequences, FiniteSets, TLC

\* ------------------------------------------------------------------ bounds
\* A provider payload (articles, series, artifacts) has at most this many items.
MaxItems == 2

\* ChartService.getMultipleStocksData is given at most this many symbols.
MaxSymbols == 3

\* ------------------------------------------------------- program constants
\* getBursaHistoricalData: for (let i = 0; i < 30; i++)
MockPoints == 30

\* new NodeCache({ stdTTL: 3600, ... }): the seconds an entry lives
stdTTL == 3600

\* fetchNews: ...&max=5&token=..., the number of articles asked of the provider
MaxArticles == 5

\* ChartService.formatChartData: .slice(-100), the points a chart keeps
ChartPoints == 100

\* ---------------------------------------------------------- JavaScript values
\* A string is a sequence of tokens; " " and "\t" are whitespace tokens and
\* every other token is a run of non-whitespace characters.
Whitespace == {" ", "\t"}

RECURSIVE TrimStart(_)
TrimStart(s) ==
    IF s # <<>> /\ Head(s) \in Whitespace THEN TrimStart(Tail(s)) ELSE s

RECURSIVE TrimEnd(_)
TrimEnd(s) ==
    IF s # <<>> /\ s[Len(s)] \in Whitespace
    THEN TrimEnd(SubSeq(s, 1, Len(s) - 1))
    ELSE s

\* String.prototype.trim
Trim(s) == TrimEnd(TrimStart(s))

\* A value the model (or a request body) may hold in a property.
JsUndefined == [typ |-> "undefined", num |-> 0, chars |-> <<>>]
JsNumber(n) == [typ |-> "number", num |-> n, chars |-> <<>>]
JsObject == [typ |-> "object", num |-> 0, chars |-> <<>>]
JsString(s) == [typ |-> "string", num |-> 0, chars |-> s]

\* ToBoolean
Truthy(v) ==
    CASE v.typ = "undefined" -> FALSE
      [] v.typ = "number" -> v.num # 0
      [] v.typ = "object" -> TRUE
      [] v.typ = "string" -> v.chars # <<>>

\* An absent argument of a tool call / a nullable field of the envelope.
Undefined == "<undefined>"
Null == {}
Some(v) == {v}

\* String.prototype.toUpperCase over the tickers and symbols of the model.
ToUpperCase(s) ==
    CASE s = "aapl" -> "AAPL"
      [] s = "nasdaq" -> "NASDAQ"
      [] s = "s&p 500" -> "S&P 500"
      [] s = "dow" -> "DOW"
      [] s = "tnb" -> "TNB"
      [] s = "Nasdaq 100" -> "NASDAQ 100"
      [] s = "compq" -> "COMPQ"
      [] s = "sp500" -> "SP500"
      [] s = "^gspc" -> "^GSPC"
      [] OTHER -> s

\* String.prototype.toLowerCase over the indicator codes and countries.
ToLowerCase(s) ==
    CASE s = "CPI" -> "cpi"
      [] s = "PPI" -> "ppi"
      [] s = "FOMC" -> "fomc"
      [] s = "Fomc" -> "fomc"
      [] s = "GDP" -> "gdp"
      [] s = "INTEREST_RATE" -> "interest_rate"
      [] s = "Malaysia" -> "malaysia"
      [] s = "United States" -> "united states"
      [] OTHER -> s

\* ------------------------------------------------------------- tool registry
\* The names declared to the model in `tools`.
Tools ==
    { "fetch_news", "get_stock_data", "get_bursa_announcements",
      "analyze_social_sentiment", "get_economic_indicator_data",
      "get_historical_stock_data", "get_bursa_historical_data",
      "generate_image_tool" }

\* The data field a tool's success payload carries.
DataFields ==
    { "articles", "stock_data", "announcements", "sentiment_data",
      "historical_data", "historical_economic_data", "imageUrl" }

\* --------------------------------------------------------------------- state
VARIABLES
    env,                    \* the credentials set in process.env
    cache,                  \* NodeCache: cacheKey -> the stored result
    ttl,                    \* NodeCache: cacheKey -> the seconds the entry has left
                            \* to live (negative: its time-to-live has passed)
    pc,                     \* where the /analyze handler is suspended
    query,                  \* value.query of the request in the handler
    call,                   \* result.response.functionCall
    planText,               \* result.response.text() of the planning reply
    toolResponse,           \* Null or Some(outcome of the executor)
    finalResponseText,
    imageUrl,
    historicalStockData,
    historicalEconomicData,
    articlesData,
    audioUrl,
    pending,                \* the executor run the handler awaits
    response,               \* what the provider call of the executor that just
                            \* returned settled with (a local of the executor)
    audioResult,            \* Null or Some(what generateAudio returned)
    ocrRes,                 \* the responses sent for a request to /ocr, in order
    econRes,                \* the responses sent for a request to /economic-data
    caught,                 \* Null or Some(error the catch block was entered with)
    res,                    \* the responses sent for the request, in order
    log,                    \* the external calls of the request, in order
    other,                  \* the locals of a second request, suspended at an await
    probe                   \* a function applied on its own, outside a request:
                            \* its inputs, and its result once it has run

vars ==
    << env, cache, ttl, pc, query, call, planText, toolResponse, finalResponseText,
       imageUrl, historicalStockData, historicalEconomicData, articlesData,
       audioUrl, pending, response, audioResult, ocrRes, econRes, caught, res,
       log, other, probe >>

\* ---------------------------------------------------------------- environment
\* The credentials the executors read from process.env (loaded once by
\* dotenv.config(); nothing in the program writes to process.env).
Credentials ==
    { "GNEWS_API_KEY", "ALPHA_VANTAGE_API_KEY", "TRADING_ECONOMICS_API_KEY",
      "STABILITY_AI_API_KEY", "ELEVENLABS_API_KEY", "OCR_SPACE_API_KEY" }

\* The credential each executor reads.
CredentialOf(fn) ==
    CASE fn = "fetchNews" -> "GNEWS_API_KEY"
      [] fn \in {"getStockData", "getHistoricalStockData"} -> "ALPHA_VANTAGE_API_KEY"
      [] fn = "getEconomicIndicatorData" -> "TRADING_ECONOMICS_API_KEY"
      [] fn = "generateImage" -> "STABILITY_AI_API_KEY"
      [] fn = "generateAudio" -> "ELEVENLABS_API_KEY"
      [] fn = "performOcr" -> "OCR_SPACE_API_KEY"

\* The environments the process may be started in: the credentials of the
\* tools and of OCR all set or all missing, with and without the credential of
\* the audio step (a request reads its tool's credential and the audio one).
Environments ==
    { Credentials, Credentials \ {"ELEVENLABS_API_KEY"}, {"ELEVENLABS_API_KEY"}, {} }

\* ------------------------------------------------------------ provider replies
\* What an axios call settles with: a payload ("ok": the expected field with
\* `items`; "errmsg": a body with an "Error Message" and no expected field;
\* "malformed": a body whose shape makes the executor's own code throw), or a
\* rejection ("fail") with the HTTP status of error.response (0: no response).
NoReply == [kind |-> "none", status |-> 0, items |-> <<>>]

FailStatuses == {0, 400, 401, 429}

\* The sequences of distinct keys 1..MaxItems of length <= MaxItems.
Payloads ==
    { s \in UNION { [1..n -> 1..MaxItems] : n \in 0..MaxItems } :
        \A i, j \in DOMAIN s : i # j => s[i] # s[j] }

Replies ==
    { [kind |-> "ok", status |-> 200, items |-> s] : s \in Payloads }
    \cup { [kind |-> k, status |-> 200, items |-> <<>>] : k \in {"errmsg", "malformed"} }
    \cup { [kind |-> "fail", status |-> st, items |-> <<>>] : st \in FailStatuses }

\* ------------------------------------------------------------------ outcomes
\* The object an executor returns: `has` is the set of its own properties
\* (the wording of `text` is kept only where it lists the supported indicators).
EmptyOutcome ==
    [ has |-> {}, error |-> "", text |-> "", articles |-> <<>>,
      historical_data |-> <<>>, historical_economic_data |-> <<>>,
      imageUrl |-> "", audioUrl |-> "", ticker |-> "", indicator |-> "",
      country |-> "" ]

ErrorOutcome(msg) ==
    [EmptyOutcome EXCEPT !.has = {"error", "text"}, !.error = msg]

\* How a run of an executor ended: it returned `out` or threw; `req` is the
\* request it sent to its provider (<<>>: none); `cache` the cache it leaves.
Returned(out, req) ==
    [threw |-> FALSE, out |-> out, req |-> req, cache |-> cache, ttl |-> ttl]
Threw(req) ==
    [threw |-> TRUE, out |-> EmptyOutcome, req |-> req, cache |-> cache, ttl |-> ttl]

\* Array.prototype.sort((a, b) => a - b): stable insertion into a sorted list.
RECURSIVE Insert(_, _)
Insert(x, s) ==
    IF s = <<>> THEN <<x>>
    ELSE IF x < Head(s) THEN <<x>> \o s
    ELSE <<Head(s)>> \o Insert(x, Tail(s))

\* The entries in the order the provider sent them.
Unsorted(s) == s

RECURSIVE SortByDate(_)
SortByDate(s) ==
    IF s = <<>> THEN <<>> ELSE Insert(s[Len(s)], SortByDate(SubSeq(s, 1, Len(s) - 1)))

\* Array.prototype.filter
RECURSIVE Filter(_, _, _)
Filter(s, startDate, endDate) ==
    IF s = <<>> THEN <<>>
    ELSE LET keep == (startDate = 0 \/ Head(s) >= startDate)
                     /\ (endDate = 0 \/ Head(s) <= endDate)
         IN  (IF keep THEN <<Head(s)>> ELSE <<>>) \o Filter(Tail(s), startDate, endDate)

\* ---------------------------------------------------------------- executors
\* Each executor is given its arguments, whether its credential is set in
\* process.env (`key`), and the reply its provider call settles with (read
\* only when the call is made).

\* fetchNews with a no-articles branch that also returns the (empty) list.
fetchNewsBoth(keyword, key, reply) ==
    LET req == <<"gnews", keyword>> IN
    IF ~key THEN Returned(ErrorOutcome("GNews API key not found."), <<>>)
    ELSE IF reply.kind \in {"fail", "malformed"}
    THEN Returned(ErrorOutcome("Failed to fetch news."), req)
    ELSE IF reply.kind = "ok" /\ Len(reply.items) > 0
    THEN Returned([EmptyOutcome EXCEPT !.has = {"articles", "text"},
                                       !.articles = reply.items], req)
    ELSE Returned([ErrorOutcome("No news articles found.") EXCEPT
                     !.has = {"error", "articles", "text"}], req)

\* fetchNews without the length check on response.data.articles.
fetchNewsEmptyList(keyword, key, reply) ==
    LET req == <<"gnews", keyword>> IN
    IF ~key THEN Returned(ErrorOutcome("GNews API key not found."), <<>>)
    ELSE IF reply.kind \in {"fail", "malformed"}
    THEN Returned(ErrorOutcome("Failed to fetch news."), req)
    ELSE IF reply.kind = "ok"
    THEN Returned([EmptyOutcome EXCEPT !.has = {"articles", "text"},
                                       !.articles = reply.items], req)
    ELSE Returned(ErrorOutcome("No news articles found."), req)

\* async function fetchNews(keyword)
fetchNews(keyword, key, reply) ==
    LET req == <<"gnews", keyword>> IN
    IF ~key THEN Returned(ErrorOutcome("GNews API key not found."), <<>>)
    ELSE IF reply.kind \in {"fail", "malformed"}
    THEN Returned(ErrorOutcome("Failed to fetch news."), req)
    ELSE IF reply.kind = "ok" /\ Len(reply.items) > 0
    THEN Returned([EmptyOutcome EXCEPT !.has = {"articles", "text"},
                                       !.articles = reply.items], req)
    ELSE Returned(ErrorOutcome("No news articles found."), req)

\* getStockData without the check of its credential: the request is sent with
\* an undefined key and the provider refuses it.
getStockDataNoKeyCheck(ticker, key, reply) ==
    LET req == <<"alphavantage", "GLOBAL_QUOTE", ticker>> IN
    IF reply.kind \in {"fail", "malformed"} \/ ~key
    THEN Returned(ErrorOutcome("Failed to fetch stock data."), req)
    ELSE IF reply.kind = "ok" /\ Len(reply.items) > 0
    THEN Returned([EmptyOutcome EXCEPT !.has = {"stock_data", "text"},
                                       !.ticker = ticker], req)
    ELSE IF reply.kind = "errmsg"
    THEN Returned(ErrorOutcome("Alpha Vantage Error."), req)
    ELSE Returned(ErrorOutcome("No live stock data found."), req)

\* async function getStockData(ticker)
getStockData(ticker, key, reply) ==
    LET req == <<"alphavantage", "GLOBAL_QUOTE", ticker>> IN
    IF ~key THEN Returned(ErrorOutcome("Alpha Vantage API key not found."), <<>>)
    ELSE IF reply.kind \in {"fail", "malformed"}
    THEN Returned(ErrorOutcome("Failed to fetch stock data."), req)
    ELSE IF reply.kind = "ok" /\ Len(reply.items) > 0
    THEN Returned([EmptyOutcome EXCEPT !.has = {"stock_data", "text"},
                                       !.ticker = ticker], req)
    ELSE IF reply.kind = "errmsg"
    THEN Returned(ErrorOutcome("Alpha Vantage Error."), req)
    ELSE Returned(ErrorOutcome("No live stock data found."), req)

\* async function getBursaAnnouncements(symbol)
getBursaAnnouncements(symbol) ==
    IF symbol = Undefined THEN Threw(<<>>)        \* symbol.toUpperCase()
    ELSE Returned([EmptyOutcome EXCEPT !.has = {"announcements", "text"},
                                       !.ticker = ToUpperCase(symbol)], <<>>)

\* async function analyzeSocialSentiment(keyword)
analyzeSocialSentiment(keyword) ==
    Returned([EmptyOutcome EXCEPT !.has = {"sentiment_data", "text"}], <<>>)

\* A cache that is written and never read.
CacheGetMiss(k) == Null

\* A cache whose entries are returned whatever their age.
CacheGetIgnoresTtl(k) == IF k \in DOMAIN cache THEN Some(cache[k]) ELSE Null

\* cache.get(key): undefined for a key that is not stored or whose
\* time-to-live has passed
CacheGet(k) == IF k \in DOMAIN cache /\ ttl[k] >= 0 THEN Some(cache[k]) ELSE Null

\* A cache that holds one entry: a set drops every other key.
CacheSetSingleEntry(k, v) == [x \in {k} |-> v]

\* cache.set(key, value): the value is stored for stdTTL seconds
CacheSet(k, v) == [x \in DOMAIN cache \cup {k} |-> IF x = k THEN v ELSE cache[x]]

TtlSet(k) == [x \in DOMAIN ttl \cup {k} |-> IF x = k THEN stdTTL ELSE ttl[x]]

\* const cacheKey = `economic_${indicatorCode}_${countryCode}_${startDate || 'all'}_${endDate || 'all'}`
CacheKey(indicatorCode, countryArg, startDate, endDate) ==
    << indicatorCode, IF countryArg = Undefined THEN "united states" ELSE countryArg,
       startDate, endDate >>

\* A switch whose default passes the code on as the provider's query term.
EndpointPassThrough(code) ==
    CASE code = "cpi" -> "consumer price index"
      [] code = "ppi" -> "producer price index"
      [] code \in {"fomc", "interest_rate"} -> "interest rate"
      [] code = "gdp" -> "gdp growth rate"
      [] OTHER -> code

\* A switch that lacks the case 'gdp'.
EndpointNoGdp(code) ==
    CASE code = "cpi" -> "consumer price index"
      [] code = "ppi" -> "producer price index"
      [] code \in {"fomc", "interest_rate"} -> "interest rate"
      [] OTHER -> Undefined

\* the switch on indicatorCode.toLowerCase(): the provider's query term
Endpoint(code) ==
    CASE code = "cpi" -> "consumer price index"
      [] code = "ppi" -> "producer price index"
      [] code \in {"fomc", "interest_rate"} -> "interest rate"
      [] code = "gdp" -> "gdp growth rate"
      [] OTHER -> Undefined

\* A switch that leaves countryCode as the caller gave it.
QueriedCountryAsRequested(code, countryCode) == countryCode

\* countryCode after the switch (lines 244-256): the interest-rate cases
\* reassign it, to 'united states' for fomc and to the lower-cased name else.
QueriedCountry(code, countryCode) ==
    LET countryName == ToLowerCase(countryCode) IN
    IF code \in {"fomc", "interest_rate"}
    THEN IF code = "fomc" \/ countryName = "united states"
         THEN "united states" ELSE countryName
    ELSE countryCode

\* A lookup that stores what it returns for an empty upstream payload too.
getEconomicIndicatorDataCachesAll(indicatorCode, countryArg, startDate, endDate, cachedData, key, reply) ==
    LET countryCode == IF countryArg = Undefined THEN "united states" ELSE countryArg
        cacheKey == CacheKey(indicatorCode, countryArg, startDate, endDate)
        countryName == ToLowerCase(countryCode)
        code == ToLowerCase(indicatorCode)
        queried == QueriedCountry(code, countryCode)
        req == <<"tradingeconomics", queried, Endpoint(code)>>
        chartData == SortByDate(Filter(reply.items, startDate, endDate))
        result == [EmptyOutcome EXCEPT
                     !.has = {"indicator", "country", "historical_economic_data",
                              "source", "text"},
                     !.indicator = indicatorCode, !.country = queried,
                     !.historical_economic_data = chartData]
    IN
    IF cachedData # Null THEN Returned(CHOOSE v \in cachedData : TRUE, <<>>)
    ELSE IF ~key
    THEN Returned(ErrorOutcome("Trading Economics API key not found."), <<>>)
    ELSE IF indicatorCode = Undefined THEN Threw(<<>>)  \* indicatorCode.toLowerCase()
    ELSE IF Endpoint(code) = Undefined
    THEN Returned([ErrorOutcome("Unsupported economic indicator.") EXCEPT
                     !.text = "I can only fetch data for 'CPI', 'PPI', 'FOMC' (for US interest rates), 'interest_rate', or 'GDP'."],
                  <<>>)
    ELSE IF reply.kind = "fail"
    THEN Returned(ErrorOutcome(
             CASE reply.status = 401 -> "Authentication failed for Trading Economics API."
               [] reply.status = 429 -> "Trading Economics API rate limit exceeded."
               [] OTHER -> "Failed to fetch economic data."), req)
    ELSE IF reply.kind = "malformed"
    THEN Returned(ErrorOutcome("Failed to fetch economic data."), req)
    ELSE IF reply.kind = "ok" /\ Len(reply.items) > 0
    THEN [threw |-> FALSE, out |-> result, req |-> req,
          cache |-> CacheSet(cacheKey, result), ttl |-> TtlSet(cacheKey)]
    ELSE [threw |-> FALSE, out |-> ErrorOutcome("No historical economic data found."),
          req |-> req,
          cache |-> CacheSet(cacheKey, ErrorOutcome("No historical economic data found.")),
          ttl |-> TtlSet(cacheKey)]

\* async function getEconomicIndicatorData(indicatorCode, countryCode, startDate, endDate)
\* (`cachedData` is what cache.get(cacheKey) returned when the call began)
getEconomicIndicatorData(indicatorCode, countryArg, startDate, endDate, cachedData, key, reply) ==
    LET countryCode == IF countryArg = Undefined THEN "united states" ELSE countryArg
        cacheKey == CacheKey(indicatorCode, countryArg, startDate, endDate)
        countryName == ToLowerCase(countryCode)
        code == ToLowerCase(indicatorCode)
        queried == QueriedCountry(code, countryCode)
        req == <<"tradingeconomics", queried, Endpoint(code)>>
        chartData == SortByDate(Filter(reply.items, startDate, endDate))
        result == [EmptyOutcome EXCEPT
                     !.has = {"indicator", "country", "historical_economic_data",
                              "source", "text"},
                     !.indicator = indicatorCode, !.country = queried,
                     !.historical_economic_data = chartData]
    IN
    IF cachedData # Null THEN Returned(CHOOSE v \in cachedData : TRUE, <<>>)
    ELSE IF ~key
    THEN Returned(ErrorOutcome("Trading Economics API key not found."), <<>>)
    ELSE IF indicatorCode = Undefined THEN Threw(<<>>)  \* indicatorCode.toLowerCase()
    ELSE IF Endpoint(code) = Undefined
    THEN Returned([ErrorOutcome("Unsupported economic indicator.") EXCEPT
                     !.text = "I can only fetch data for 'CPI', 'PPI', 'FOMC' (for US interest rates), 'interest_rate', or 'GDP'."],
                  <<>>)
    ELSE IF reply.kind = "fail"
    THEN Returned(ErrorOutcome(
             CASE reply.status = 401 -> "Authentication failed for Trading Economics API."
               [] reply.status = 429 -> "Trading Economics API rate limit exceeded."
               [] OTHER -> "Failed to fetch economic data."), req)
    ELSE IF reply.kind = "malformed"
    THEN Returned(ErrorOutcome("Failed to fetch economic data."), req)
    ELSE IF reply.kind = "ok" /\ Len(reply.items) > 0
    THEN [threw |-> FALSE, out |-> result, req |-> req,
          cache |-> CacheSet(cacheKey, result), ttl |-> TtlSet(cacheKey)]
    ELSE Returned(ErrorOutcome("No historical economic data found."), req)

\* An alias switch that lacks the COMPQ case.
ActualTickerMissingAlias(upper) ==
    CASE upper \in {"NASDAQ", "^IXIC", "NASDAQ 100"} -> "QQQ"
      [] upper \in {"S&P 500", "SP500", "^GSPC"} -> "SPY"
      [] upper \in {"DOW JONES", "DOW", "^DJI"} -> "DIA"
      [] OTHER -> upper

\* the switch on ticker.toUpperCase(): index names to their proxy ETF
ActualTicker(upper) ==
    CASE upper \in {"NASDAQ", "^IXIC", "NASDAQ 100", "COMPQ"} -> "QQQ"
      [] upper \in {"S&P 500", "SP500", "^GSPC"} -> "SPY"
      [] upper \in {"DOW JONES", "DOW", "^DJI"} -> "DIA"
      [] OTHER -> upper

\* the switch on period: the provider's function name
FunctionName(period) ==
    CASE period = "daily" -> "TIME_SERIES_DAILY_ADJUSTED"
      [] period = "weekly" -> "TIME_SERIES_WEEKLY_ADJUSTED"
      [] period = "monthly" -> "TIME_SERIES_MONTHLY_ADJUSTED"
      [] OTHER -> Undefined

\* async function getHistoricalStockData(ticker, period = 'daily')
getHistoricalStockData(ticker, periodArg, key, reply) ==
    LET period == IF periodArg = Undefined THEN "daily" ELSE periodArg
        actualTicker == ActualTicker(ToUpperCase(ticker))
        req == <<"alphavantage", FunctionName(period), actualTicker>>
    IN
    IF ~key THEN Returned(ErrorOutcome("Alpha Vantage API key not found."), <<>>)
    ELSE IF ticker = Undefined THEN Threw(<<>>)         \* ticker.toUpperCase()
    ELSE IF FunctionName(period) = Undefined
    THEN Returned(ErrorOutcome("Invalid period specified for historical stock data. Choose 'daily', 'weekly', or 'monthly'."), <<>>)
    ELSE IF reply.kind = "fail"
    THEN Returned(ErrorOutcome(
             CASE reply.status = 401 -> "Authentication failed for Alpha Vantage API."
               [] reply.status = 429 -> "Alpha Vantage API rate limit exceeded."
               [] OTHER -> "Failed to fetch historical data."), req)
    ELSE IF reply.kind = "malformed"
    THEN Returned(ErrorOutcome("Failed to fetch historical data."), req)
    ELSE IF reply.kind = "ok" /\ Len(reply.items) > 0
    THEN Returned([EmptyOutcome EXCEPT
                     !.has = {"ticker", "historical_data", "source", "text"},
                     !.ticker = actualTicker,
                     !.historical_data = SortByDate(reply.items)], req)
    ELSE IF reply.kind = "errmsg"
    THEN Returned(ErrorOutcome("Alpha Vantage Error."), req)
    ELSE Returned(ErrorOutcome("No historical data found."), req)

\* Days of month `mi` (months counted from a January; February has 28 days).
DaysInMonth(mi) ==
    CASE mi % 12 = 1 -> 28
      [] mi % 12 \in {3, 5, 8, 10} -> 30
      [] OTHER -> 31

RECURSIVE DaysBefore(_)
DaysBefore(mi) == IF mi = 0 THEN 0 ELSE DaysBefore(mi - 1) + DaysInMonth(mi - 1)

\* The day number of a Date; a day past the end of its month rolls over into
\* the next month, as Date.prototype.setMonth and setDate do.
DayNumber(mi, d) == DaysBefore(mi) + d

\* new Date(): the days on which the mock executor is run.
Todays == { [m |-> 38, d |-> 31], [m |-> 36, d |-> 15] }

\* The date of point i of the mock series.
MockDate(today, period, i) ==
    CASE period = "daily" -> DayNumber(today.m, today.d) - i
      [] period = "weekly" -> DayNumber(today.m, today.d) - (i * 7)
      [] period = "monthly" -> DayNumber(today.m - i, today.d)
      [] OTHER -> DayNumber(today.m, today.d)

\* async function getBursaHistoricalData(symbol, period = 'daily')
getBursaHistoricalData(symbol, periodArg, today) ==
    LET period == IF periodArg = Undefined THEN "daily" ELSE periodArg
        \* historicalData.unshift(...) for i = 0 .. 29: point i ends at 30 - i
        historicalData == [j \in 1..MockPoints |-> MockDate(today, period, MockPoints - j)]
    IN  Returned([EmptyOutcome EXCEPT
                    !.has = {"ticker", "historical_data", "source", "text"},
                    !.ticker = symbol,
                    !.historical_data = historicalData], <<>>)

\* async function generateImage(prompt)
generateImage(prompt, key, reply) ==
    LET req == <<"stability", prompt>> IN
    IF ~key THEN Returned(ErrorOutcome("Stability AI API key not found."), <<>>)
    ELSE IF prompt = Undefined THEN Threw(<<>>)          \* prompt.substring(0, 50)
    ELSE IF reply.kind = "fail"
    THEN Returned(ErrorOutcome(
             CASE reply.status = 400 -> "Stability AI API error."
               [] reply.status = 401 -> "Authentication failed for Stability AI."
               [] reply.status = 429 -> "Stability AI API rate limit exceeded."
               [] OTHER -> "Failed to generate image."), req)
    ELSE IF reply.kind = "malformed"
    THEN Returned(ErrorOutcome("Failed to generate image."), req)
    ELSE IF reply.kind = "ok" /\ Len(reply.items) > 0
    THEN Returned([EmptyOutcome EXCEPT !.has = {"imageUrl", "text"},
                                       !.imageUrl = "data:image/png;base64"], req)
    ELSE Returned(ErrorOutcome("No image artifacts found in generation response."), req)

\* async function generateAudio(text, voiceId)
generateAudio(text, key, reply) ==
    LET req == <<"elevenlabs", text>> IN
    IF ~key THEN Returned([EmptyOutcome EXCEPT !.has = {"error"},
                                               !.error = "ElevenLabs API key not found."], <<>>)
    ELSE IF reply.kind = "fail"
    THEN Returned([EmptyOutcome EXCEPT
                     !.has = {"error"},
                     !.error = CASE reply.status = 401 -> "Authentication failed for ElevenLabs."
                                 [] reply.status = 429 -> "ElevenLabs API rate limit exceeded."
                                 [] OTHER -> "Failed to generate audio."], req)
    ELSE IF reply.kind = "malformed"                 \* Buffer.from(response.data)
    THEN Returned([EmptyOutcome EXCEPT !.has = {"error"},
                                       !.error = "Failed to generate audio."], req)
    ELSE Returned([EmptyOutcome EXCEPT !.has = {"audioUrl"},
                                       !.audioUrl = "data:audio/mpeg;base64"], req)

\* async function performOcr(imageData, contentType)
performOcr(key, reply) ==
    LET req == <<"ocr.space">> IN
    IF ~key THEN Returned([EmptyOutcome EXCEPT !.has = {"error"},
                                               !.error = "OCR.space API key not found."], <<>>)
    ELSE IF reply.kind = "fail"
    THEN Returned([EmptyOutcome EXCEPT
                     !.has = {"error"},
                     !.error = CASE reply.status = 401 -> "Authentication failed for OCR.space."
                                 [] reply.status = 429 -> "OCR.space API rate limit exceeded."
                                 [] OTHER -> "Failed to perform OCR."], req)
    ELSE IF reply.kind = "malformed"
    THEN Returned([EmptyOutcome EXCEPT !.has = {"error"},
                                       !.error = "Failed to perform OCR."], req)
    ELSE IF reply.kind = "ok" /\ Len(reply.items) > 0
    THEN Returned([EmptyOutcome EXCEPT !.has = {"extractedText"}], req)
    ELSE IF reply.kind = "errmsg"
    THEN Returned([EmptyOutcome EXCEPT !.has = {"error"},
                                       !.error = "OCR processing failed."], req)
    ELSE Returned([EmptyOutcome EXCEPT
                     !.has = {"error"},
                     !.error = "Could not extract text from image. No parsed results."], req)

\* --------------------------------------------------- what the model may reply
\* call.args: `defined` is FALSE when the function call carries no args object;
\* `a` is the tool's required argument (keyword, ticker, symbol, indicatorCode
\* or prompt).
Args(a, period, countryCode, startDate, endDate) ==
    [ defined |-> TRUE, a |-> a, period |-> period, countryCode |-> countryCode,
      startDate |-> startDate, endDate |-> endDate ]

NoArgs ==
    [ defined |-> FALSE, a |-> Undefined, period |-> Undefined,
      countryCode |-> Undefined, startDate |-> 0, endDate |-> 0 ]

ArgsOf(tool) ==
    CASE tool = "fetch_news" ->
           { Args(a, Undefined, Undefined, 0, 0) : a \in {"tesla", Undefined} }
      [] tool = "get_stock_data" ->
           { Args(a, Undefined, Undefined, 0, 0) : a \in {"AAPL", Undefined} }
      [] tool = "get_bursa_announcements" ->
           { Args(a, Undefined, Undefined, 0, 0) : a \in {"tnb", Undefined} }
      [] tool = "analyze_social_sentiment" ->
           { Args("tesla", Undefined, Undefined, 0, 0) }
      [] tool = "get_economic_indicator_data" ->
           { Args("CPI", Undefined, Undefined, 0, 0),
             Args("FOMC", Undefined, "Malaysia", 2, 2),
             Args("XYZ", Undefined, Undefined, 0, 0),
             Args(Undefined, Undefined, Undefined, 0, 0) }
      [] tool = "get_historical_stock_data" ->
           { Args("aapl", Undefined, Undefined, 0, 0),
             Args("nasdaq", "weekly", Undefined, 0, 0),
             Args("AAPL", "hourly", Undefined, 0, 0),
             Args(Undefined, "daily", Undefined, 0, 0) }
           \cup { Args(a, Undefined, Undefined, 0, 0) :
                    a \in { "^IXIC", "Nasdaq 100", "compq", "S&P 500", "sp500",
                            "^gspc", "DOW JONES", "dow", "^DJI" } }
      [] tool = "get_bursa_historical_data" ->
           { Args("tnb", Undefined, Undefined, 0, 0),
             Args("tnb", "monthly", Undefined, 0, 0),
             Args(Undefined, "weekly", Undefined, 0, 0) }
      [] tool = "generate_image_tool" ->
           { Args(a, Undefined, Undefined, 0, 0) : a \in {"market infographic", Undefined} }

\* call.name values that are not a usable name.
BadNames ==
    { JsUndefined, JsNumber(0), JsNumber(7), JsObject,
      JsString(<<>>), JsString(<<" ", "\t">>) }

\* Non-empty names that no case of the switch matches.
UnknownNames ==
    { JsString(<<"get_weather">>), JsString(<<" ", "fetch_news">>),
      JsString(<<"Fetch_News">>) }

\* result.response.functionCall, when the reply carries one.
FunctionCalls ==
    { [name |-> n, args |-> NoArgs] : n \in BadNames \cup UnknownNames }
    \cup { [name |-> JsString(<<t>>), args |-> NoArgs] : t \in Tools }
    \cup UNION { { [name |-> JsString(<<t>>), args |-> a] : a \in ArgsOf(t) } : t \in Tools }

\* response.text() of a reply of the model ("" when it carries no text part).
ModelTexts == {"", "direct answer"}
FollowUpTexts == {"", "follow-up answer"}

\* A thrown Error: the marker substrings its message contains, and
\* error.response.status (0: the error carries no response).
Markers == {"functionCall", "response", "API key", "Request failed with status code"}

TypeErrorValue == [message |-> {}, status |-> 0]

ModelErrors ==
    { [message |-> m, status |-> st] :
        m \in { {}, {"functionCall"}, {"functionCall", "response"}, {"API key"},
                {"functionCall", "API key"}, {"Request failed with status code"} },
        st \in {0, 429} }

\* The errors the follow-up chat.sendMessage is made to reject with (the catch
\* block is the one the planning call's errors go through).
FollowUpErrors ==
    { [message |-> {}, status |-> 0],
      [message |-> {"API key"}, status |-> 0],
      [message |-> {"Request failed with status code"}, status |-> 429] }

\* ------------------------------------------------------------- request bodies
Bodies ==
    { [query |-> q] :
        q \in { JsUndefined, JsNumber(5), JsString(<<>>), JsString(<<" ", " ">>),
                JsString(<<" ", "AAPL", " ">>), JsString(<<"AAPL">>) } }

\* A schema without trim(): min(1) counts the characters as sent.
analyzeSchemaNoTrim(body) ==
    IF body.query.typ = "string" /\ Len(body.query.chars) >= 1
    THEN [error |-> FALSE, query |-> body.query.chars]
    ELSE [error |-> TRUE, query |-> <<>>]

\* analyzeSchema.validate(req.body): Joi.string().trim().min(1).required()
analyzeSchema(body) ==
    IF body.query.typ = "string" /\ Len(Trim(body.query.chars)) >= 1
    THEN [error |-> FALSE, query |-> Trim(body.query.chars)]
    ELSE [error |-> TRUE, query |-> <<>>]

\* ------------------------------------------------------ the /analyze handler
\* The name check without its trim() clause.
InvalidNameNoTrim(name) ==
    ~Truthy(name) \/ name.typ # "string"

\* if (!call.name || typeof call.name !== 'string' || call.name.trim() === '')
InvalidName(name) ==
    ~Truthy(name) \/ name.typ # "string" \/ Trim(name.chars) = <<>>

\* A switch whose image case still carries the name of a tool that the
\* declarations have since renamed.
SwitchCasesStale ==
    { <<"fetch_news", "fetchNews">>,
      <<"get_stock_data", "getStockData">>,
      <<"get_bursa_announcements", "getBursaAnnouncements">>,
      <<"analyze_social_sentiment", "analyzeSocialSentiment">>,
      <<"get_economic_indicator_data", "getEconomicIndicatorData">>,
      <<"get_historical_stock_data", "getHistoricalStockData">>,
      <<"get_bursa_historical_data", "getBursaHistoricalData">>,
      <<"generate_image", "generateImage">> }

\* The cases of `switch (call.name)`: the label and the executor it calls.
SwitchCases ==
    { <<"fetch_news", "fetchNews">>,
      <<"get_stock_data", "getStockData">>,
      <<"get_bursa_announcements", "getBursaAnnouncements">>,
      <<"analyze_social_sentiment", "analyzeSocialSentiment">>,
      <<"get_economic_indicator_data", "getEconomicIndicatorData">>,
      <<"get_historical_stock_data", "getHistoricalStockData">>,
      <<"get_bursa_historical_data", "getBursaHistoricalData">>,
      <<"generate_image_tool", "generateImage">> }

\* The executor of the case whose label === name; Undefined: no case matches.
Match(cases, name) ==
    IF \E c \in cases : name = <<c[1]>>
    THEN (CHOOSE c \in cases : name = <<c[1]>>)[2]
    ELSE Undefined

\* A switch that matches the trimmed name.
ExecutorOfTrimmed(name) == Match(SwitchCases, Trim(name))

\* A switch whose get_stock_data case calls the image executor.
ExecutorOfSwapped(name) ==
    Match((SwitchCases \ {<<"get_stock_data", "getStockData">>})
              \cup {<<"get_stock_data", "generateImage">>}, name)

\* A switch that lacks the case of a declared tool.
ExecutorOfMissingCase(name) ==
    Match(SwitchCases \ {<<"generate_image_tool", "generateImage">>}, name)

\* The executor `switch (call.name)` invokes; Undefined: the default case.
ExecutorOf(name) == Match(SwitchCases, name)

\* The credential an executor reads from process.env, if any.
NeedsKey(fn) ==
    fn \in { "fetchNews", "getStockData", "getEconomicIndicatorData",
             "getHistoricalStockData", "generateImage", "generateAudio" }

\* The pending run of an executor: its function, arguments, whether its
\* credential is set, the day it runs on, what it read from the cache when it
\* began, and the provider request it made.
Pending(fn, args, key, today, cached, req) ==
    [ fn |-> fn, args |-> args, key |-> key, today |-> today, cached |-> cached,
      req |-> req ]

NoPending == Pending("", NoArgs, TRUE, [m |-> 0, d |-> 0], Null, <<>>)

\* The executor call of one case of the switch, with the arguments it passes.
RunExecutor(fn, args, key, today, cached, reply) ==
    CASE fn = "fetchNews" -> fetchNews(args.a, key, reply)
      [] fn = "getStockData" -> getStockData(args.a, key, reply)
      [] fn = "getBursaAnnouncements" -> getBursaAnnouncements(args.a)
      [] fn = "analyzeSocialSentiment" -> analyzeSocialSentiment(args.a)
      [] fn = "getEconomicIndicatorData" ->
           getEconomicIndicatorData(args.a, args.countryCode, args.startDate,
                                    args.endDate, cached, key, reply)
      [] fn = "getHistoricalStockData" ->
           getHistoricalStockData(args.a, args.period, key, reply)
      [] fn = "getBursaHistoricalData" ->
           getBursaHistoricalData(args.a, args.period, today)
      [] fn = "generateImage" -> generateImage(args.a, key, reply)

\* The replies the provider of an executor may give.
RepliesFor(fn) ==
    CASE fn \in {"fetchNews", "getEconomicIndicatorData", "getHistoricalStockData"} ->
           Replies
      [] fn \in {"getStockData", "generateImage"} ->
           { r \in Replies : r.items \in {<<>>, <<1>>} }
      [] fn = "generateAudio" ->
           { r \in Replies : r.items = <<>> /\ r.kind # "errmsg" }
      [] fn = "performOcr" ->
           { r \in Replies : r.items \in {<<>>, <<1>>} }

\* The responses of the handler.
Response(status, error, details, named, summary, image, audio, hsd, hed, articles) ==
    [ status |-> status, error |-> error, details |-> details, named |-> named,
      summary |-> summary, imageUrl |-> image, audioUrl |-> audio,
      historicalStockData |-> hsd, historicalEconomicData |-> hed,
      articles |-> articles ]

ErrorResponse(status, error, details, named) ==
    Response(status, error, details, named, "", Null, Null, Null, Null, Null)

\* res.json({ summary, imageUrl, audioUrl, historicalStockData, ... })
Envelope(summary, image, audio, hsd, hed, articles) ==
    Response(200, "", {}, Null, summary, image, audio, hsd, hed, articles)

\* res.status(500).json({ error: "AI service returned an invalid function call ..." })
InvalidCallResponse ==
    ErrorResponse(500, "AI service returned an invalid function call (empty name).",
                  {"Gemini function call name was empty or malformed."}, Null)

\* default: return res.status(400).json({ error: `AI requested an unrecognized function: ...` })
UnrecognizedResponse(name) ==
    ErrorResponse(400, "AI requested an unrecognized function.",
                  {"Unhandled tool"}, Some(name))

\* A catch block that tests the status of the error before its message.
UserErrorMessageStatusFirst(e) ==
    IF e.status = 429
    THEN "My AI service is experiencing high demand."
    ELSE IF "functionCall" \in e.message /\ "response" \notin e.message
    THEN "I'm having trouble figuring out how to fulfill your request with my available tools."
    ELSE IF "API key" \in e.message
    THEN "I'm experiencing an issue connecting to my AI service."
    ELSE IF "Request failed with status code" \in e.message
    THEN "A service I rely on responded with an error."
    ELSE "I'm sorry, I encountered a critical error processing your request."

\* The userErrorMessage the catch block selects.
UserErrorMessage(e) ==
    IF "functionCall" \in e.message /\ "response" \notin e.message
    THEN "I'm having trouble figuring out how to fulfill your request with my available tools."
    ELSE IF "API key" \in e.message
    THEN "I'm experiencing an issue connecting to my AI service."
    ELSE IF e.status = 429
    THEN "My AI service is experiencing high demand."
    ELSE IF "Request failed with status code" \in e.message
    THEN "A service I rely on responded with an error."
    ELSE "I'm sorry, I encountered a critical error processing your request."

\* A catch block that logs the error and sends nothing.
CatchSwallows(e) == << >>

\* catch (error) { ... res.status(500).json({ error: userErrorMessage, details: error.message }) }
CatchResponses(e) == << ErrorResponse(500, UserErrorMessage(e), e.message, Null) >>

\* if (toolResponse && toolResponse.error)
ToolFailed(out) == "error" \in out.has /\ out.error # ""

\* An audio step that is skipped when the tool failed.
AudioOnlyOnSuccess(text) ==
    text # "" /\ \A out \in toolResponse : ~ToolFailed(out)

\* if (finalResponseText)
AudioAttempted(text) == text # ""

\* Log entries: the start and the end of an awaited call.
Start(op, fn, req) == [ev |-> "start", op |-> op, fn |-> fn, req |-> req]
End(op) == [ev |-> "end", op |-> op, fn |-> "", req |-> <<>>]

\* ------------------------------------------------------- the handler's locals
\* What a run of a route handler holds across its awaits: every variable but
\* the module-level cache and process.env.
Locals ==
    [ pc |-> pc, query |-> query, call |-> call, planText |-> planText,
      toolResponse |-> toolResponse, finalResponseText |-> finalResponseText,
      imageUrl |-> imageUrl, historicalStockData |-> historicalStockData,
      historicalEconomicData |-> historicalEconomicData,
      articlesData |-> articlesData, audioUrl |-> audioUrl, pending |-> pending,
      response |-> response, audioResult |-> audioResult, ocrRes |-> ocrRes,
      econRes |-> econRes, caught |-> caught, res |-> res, log |-> log ]

\* The locals of a handler that has not been entered.
IdleLocals ==
    [ pc |-> "idle", query |-> <<>>, call |-> Null, planText |-> "",
      toolResponse |-> Null, finalResponseText |-> "", imageUrl |-> Null,
      historicalStockData |-> Null, historicalEconomicData |-> Null,
      articlesData |-> Null, audioUrl |-> Null, pending |-> NoPending,
      response |-> NoReply, audioResult |-> Null, ocrRes |-> <<>>,
      econRes |-> <<>>, caught |-> Null, res |-> <<>>, log |-> <<>> ]

\* -------------------------------------------------------------------- actions
InitProcess ==
    /\ env \in Environments
    /\ cache = [k \in {} |-> EmptyOutcome]
    /\ ttl = [k \in {} |-> stdTTL]
    /\ pc = "idle"
    /\ query = <<>>
    /\ call = Null
    /\ planText = ""
    /\ toolResponse = Null
    /\ finalResponseText = ""
    /\ imageUrl = Null
    /\ historicalStockData = Null
    /\ historicalEconomicData = Null
    /\ articlesData = Null
    /\ audioUrl = Null
    /\ pending = NoPending
    /\ response = NoReply
    /\ audioResult = Null
    /\ ocrRes = <<>>
    /\ econRes = <<>>
    /\ caught = Null
    /\ res = <<>>
    /\ log = <<>>
    /\ other = IdleLocals

\* No function is being applied on its own.
NoProbe == [op |-> "none"]

Init == InitProcess /\ probe = NoProbe

\* A handler whose imageUrl is declared outside it and lives across requests.
ReceiveKeepsImage(body) ==
    /\ pc \in {"idle", "done", "ocrDone", "econDone"}
    /\ LET v == analyzeSchema(body) IN
       /\ query' = v.query
       /\ IF v.error
          THEN /\ pc' = "done"
               /\ res' = << ErrorResponse(400, "validation", {}, Null) >>
               /\ log' = <<>>
          ELSE /\ pc' = "plan"
               /\ res' = <<>>
               /\ log' = << Start("plan", "sendMessage", <<>>) >>
    /\ call' = Null
    /\ planText' = ""
    /\ toolResponse' = Null
    /\ finalResponseText' = ""
    /\ imageUrl' = imageUrl
    /\ historicalStockData' = Null
    /\ historicalEconomicData' = Null
    /\ articlesData' = Null
    /\ audioUrl' = Null
    /\ pending' = NoPending
    /\ response' = NoReply
    /\ audioResult' = Null
    /\ ocrRes' = <<>>
    /\ econRes' = <<>>
    /\ caught' = Null
    /\ UNCHANGED << env, probe, other, cache, ttl >>

\* app.post('/analyze'): validation, then chat.sendMessage(query) is awaited.
Receive(body) ==
    /\ pc \in {"idle", "done", "ocrDone", "econDone"}
    /\ LET v == analyzeSchema(body) IN
       /\ query' = v.query
       /\ IF v.error
          THEN /\ pc' = "done"
               /\ res' = << ErrorResponse(400, "validation", {}, Null) >>
               /\ log' = <<>>
          ELSE /\ pc' = "plan"
               /\ res' = <<>>
               /\ log' = << Start("plan", "sendMessage", <<>>) >>
    /\ call' = Null
    /\ planText' = ""
    /\ toolResponse' = Null
    /\ finalResponseText' = ""
    /\ imageUrl' = Null
    /\ historicalStockData' = Null
    /\ historicalEconomicData' = Null
    /\ articlesData' = Null
    /\ audioUrl' = Null
    /\ pending' = NoPending
    /\ response' = NoReply
    /\ audioResult' = Null
    /\ ocrRes' = <<>>
    /\ econRes' = <<>>
    /\ caught' = Null
    /\ UNCHANGED << env, probe, other, cache, ttl >>

\* The catch block of the handler, entered with the log as it then stands.
Catch(e, newlog) ==
    /\ pc' = "done"
    /\ caught' = Some(e)
    /\ res' = res \o CatchResponses(e)
    /\ log' = newlog

\* An audio step that is started and not awaited: the envelope is sent at once.
AggregateNoAwait(text, image, hsd, hed, articles, newlog) ==
    /\ finalResponseText' = text
    /\ imageUrl' = image
    /\ historicalStockData' = hsd
    /\ historicalEconomicData' = hed
    /\ audioUrl' = Null
    /\ audioResult' = Null
    /\ caught' = caught
    /\ pc' = "done"
    /\ pending' = NoPending
    /\ log' = IF AudioAttempted(text)
              THEN Append(newlog, Start("audio", "generateAudio", <<>>))
              ELSE newlog
    /\ res' = Append(res, Envelope(text, image, Null, hsd, hed, articles))

\* Lines 816-834: the audio step is started, or the envelope is sent at once.
Aggregate(text, image, hsd, hed, articles, newlog) ==
    /\ finalResponseText' = text
    /\ imageUrl' = image
    /\ historicalStockData' = hsd
    /\ historicalEconomicData' = hed
    /\ audioUrl' = Null
    /\ audioResult' = Null
    /\ caught' = caught
    /\ IF AudioAttempted(text)
       THEN \E key \in {CredentialOf("generateAudio") \in env} :
              LET run == generateAudio(text, key, NoReply) IN
              /\ pc' = "audio"
              /\ pending' = Pending("generateAudio", NoArgs, key, NoPending.today, Null, run.req)
              /\ log' = Append(newlog, Start("audio", "generateAudio", run.req))
              /\ res' = res
       ELSE /\ pc' = "done"
            /\ pending' = NoPending
            /\ log' = newlog
            /\ res' = Append(res, Envelope(text, image, Null, hsd, hed, articles))

\* chat.sendMessage(query), or reading its reply, throws.
PlanThrow(e) ==
    /\ pc = "plan"
    /\ Catch(e, Append(log, End("plan")))
    /\ UNCHANGED << env, probe, other, econRes, cache, ttl, query, call, planText, toolResponse, finalResponseText,
                    imageUrl, historicalStockData, historicalEconomicData,
                    articlesData, audioUrl, pending, response, audioResult, ocrRes >>

\* A no-tool path that generates an image for every query.
PlanNoToolWithImage(text) ==
    /\ pc = "plan"
    /\ call' = Null
    /\ planText' = text
    /\ Aggregate(text, Some("data:image/png;base64"), Null, Null, Null,
                 Append(log, End("plan")))
    /\ UNCHANGED << env, probe, other, econRes, cache, ttl, query, toolResponse, articlesData, response, ocrRes >>

\* The reply carries no function call: the model's text is the summary.
PlanNoTool(text) ==
    /\ pc = "plan"
    /\ call' = Null
    /\ planText' = text
    /\ Aggregate(text, Null, Null, Null, Null, Append(log, End("plan")))
    /\ UNCHANGED << env, probe, other, econRes, cache, ttl, query, toolResponse, articlesData, response, ocrRes >>

\* The reply carries a function call whose name is unusable.
PlanInvalidName(fc, text) ==
    /\ pc = "plan"
    /\ InvalidName(fc.name)
    /\ call' = Some(fc)
    /\ planText' = text
    /\ pc' = "done"
    /\ res' = Append(res, InvalidCallResponse)
    /\ log' = Append(log, End("plan"))
    /\ UNCHANGED << env, probe, other, econRes, cache, ttl, query, toolResponse, finalResponseText, imageUrl,
                    historicalStockData, historicalEconomicData, articlesData,
                    audioUrl, pending, response, audioResult, ocrRes, caught >>

\* The default case of the switch.
PlanUnrecognized(fc, text) ==
    /\ pc = "plan"
    /\ ~InvalidName(fc.name)
    /\ ExecutorOf(fc.name.chars) = Undefined
    /\ call' = Some(fc)
    /\ planText' = text
    /\ pc' = "done"
    /\ res' = Append(res, UnrecognizedResponse(fc.name.chars))
    /\ log' = Append(log, End("plan"))
    /\ UNCHANGED << env, probe, other, econRes, cache, ttl, query, toolResponse, finalResponseText, imageUrl,
                    historicalStockData, historicalEconomicData, articlesData,
                    audioUrl, pending, response, audioResult, ocrRes, caught >>

\* A case of the switch reads call.args.<x> and call.args is undefined.
PlanArgsThrow(fc, text) ==
    /\ pc = "plan"
    /\ ~InvalidName(fc.name)
    /\ ExecutorOf(fc.name.chars) # Undefined
    /\ ~fc.args.defined
    /\ call' = Some(fc)
    /\ planText' = text
    /\ Catch(TypeErrorValue, Append(log, End("plan")))
    /\ UNCHANGED << env, probe, other, econRes, cache, ttl, query, toolResponse, finalResponseText, imageUrl,
                    historicalStockData, historicalEconomicData, articlesData,
                    audioUrl, pending, response, audioResult, ocrRes >>

\* A case of the switch calls its executor, which runs up to its provider call.
PlanDispatch(fc, text, key, today) ==
    /\ pc = "plan"
    /\ ~InvalidName(fc.name)
    /\ ExecutorOf(fc.name.chars) # Undefined
    /\ fc.args.defined
    /\ LET fn == ExecutorOf(fc.name.chars)
           cached == IF fn = "getEconomicIndicatorData"
                     THEN CacheGet(CacheKey(fc.args.a, fc.args.countryCode,
                                            fc.args.startDate, fc.args.endDate))
                     ELSE Null
           run == RunExecutor(fn, fc.args, key, today, cached, NoReply)
       IN  /\ key = (IF NeedsKey(fn) THEN CredentialOf(fn) \in env ELSE TRUE)
           /\ today \in (IF fn = "getBursaHistoricalData" THEN Todays ELSE {NoPending.today})
           /\ pending' = Pending(fn, fc.args, key, today, cached, run.req)
           /\ log' = log \o << End("plan"), Start("tool", fn, run.req) >>
    /\ call' = Some(fc)
    /\ planText' = text
    /\ pc' = "tool"
    /\ UNCHANGED << env, probe, other, econRes, cache, ttl, query, toolResponse, finalResponseText, imageUrl,
                    historicalStockData, historicalEconomicData, articlesData,
                    audioUrl, response, audioResult, ocrRes, caught, res >>

\* The executor settles: it threw, or it returned and the handler sends the
\* outcome back to the model (lines 777-800).
ToolReturn(reply) ==
    /\ pc = "tool"
    /\ reply \in (IF pending.req # <<>> THEN RepliesFor(pending.fn) ELSE {NoReply})
    /\ LET run == RunExecutor(pending.fn, pending.args, pending.key, pending.today,
                              pending.cached, reply)
           out == run.out
           name == (CHOOSE fc \in call : TRUE).name.chars
       IN  IF run.threw
           THEN /\ Catch(TypeErrorValue, Append(log, End("tool")))
                /\ UNCHANGED << cache, ttl, toolResponse, articlesData, imageUrl >>
           ELSE /\ cache' = run.cache
                /\ ttl' = run.ttl
                /\ toolResponse' = Some(out)
                /\ articlesData' = IF pending.fn = "fetchNews" /\ "articles" \in out.has
                                   THEN Some(out.articles) ELSE articlesData
                /\ imageUrl' = IF pending.fn = "generateImage" /\ "imageUrl" \in out.has
                                  /\ out.imageUrl # ""
                               THEN Some(out.imageUrl) ELSE imageUrl
                /\ pc' = "synth"
                /\ caught' = caught
                /\ res' = res
                /\ log' = log \o << End("tool"),
                                    Start("synth", "sendMessage",
                                          IF ToolFailed(out)
                                          THEN <<"function_response", name, "error", out.error>>
                                          ELSE <<"function_response", name, "result">>) >>
    /\ response' = reply
    /\ UNCHANGED << env, probe, other, econRes, query, call, planText, finalResponseText, historicalStockData,
                    historicalEconomicData, audioUrl, pending, audioResult, ocrRes >>

\* The follow-up chat.sendMessage, or reading its reply, throws.
SynthThrow(e) ==
    /\ pc = "synth"
    /\ Catch(e, Append(log, End("synth")))
    /\ response' = NoReply
    /\ UNCHANGED << env, probe, other, econRes, cache, ttl, query, call, planText, toolResponse, finalResponseText,
                    imageUrl, historicalStockData, historicalEconomicData,
                    articlesData, audioUrl, pending, audioResult, ocrRes >>

\* A success branch that copies historical_data into both series.
SynthReturnCopyPaste(text) ==
    /\ pc = "synth"
    /\ LET out == CHOOSE o \in toolResponse : TRUE IN
       IF ToolFailed(out)
       THEN Aggregate(text,
                      IF pending.fn = "generateImage" THEN Null ELSE imageUrl,
                      historicalStockData, historicalEconomicData, articlesData,
                      Append(log, End("synth")))
       ELSE Aggregate(text, imageUrl,
                      IF "historical_data" \in out.has
                      THEN Some(out.historical_data) ELSE historicalStockData,
                      IF "historical_data" \in out.has
                      THEN Some(out.historical_data) ELSE historicalEconomicData,
                      articlesData,
                      Append(log, End("synth")))
    /\ response' = NoReply
    /\ UNCHANGED << env, probe, other, econRes, cache, ttl, query, call, planText, toolResponse, articlesData,
                    ocrRes >>

\* The follow-up reply arrives (lines 788-809), then the audio step.
SynthReturn(text) ==
    /\ pc = "synth"
    /\ LET out == CHOOSE o \in toolResponse : TRUE IN
       IF ToolFailed(out)
       THEN Aggregate(text,
                      IF pending.fn = "generateImage" THEN Null ELSE imageUrl,
                      historicalStockData, historicalEconomicData, articlesData,
                      Append(log, End("synth")))
       ELSE Aggregate(text, imageUrl,
                      IF "historical_data" \in out.has
                      THEN Some(out.historical_data) ELSE historicalStockData,
                      IF "historical_economic_data" \in out.has
                      THEN Some(out.historical_economic_data) ELSE historicalEconomicData,
                      articlesData,
                      Append(log, End("synth")))
    /\ response' = NoReply
    /\ UNCHANGED << env, probe, other, econRes, cache, ttl, query, call, planText, toolResponse, articlesData,
                    ocrRes >>

\* An audio step whose failure is thrown to the catch block.
AudioReturnStrict(reply) ==
    /\ pc = "audio"
    /\ reply \in (IF pending.req # <<>> THEN RepliesFor("generateAudio") ELSE {NoReply})
    /\ LET result == generateAudio(finalResponseText, pending.key, reply).out
           url == IF "audioUrl" \in result.has /\ result.audioUrl # ""
                  THEN Some(result.audioUrl) ELSE Null
       IN  /\ audioResult' = Some(result)
           /\ audioUrl' = url
           /\ IF "error" \in result.has
              THEN Catch(TypeErrorValue, Append(log, End("audio")))
              ELSE /\ res' = Append(res, Envelope(finalResponseText, imageUrl, url,
                                                  historicalStockData,
                                                  historicalEconomicData, articlesData))
                   /\ pc' = "done"
                   /\ log' = Append(log, End("audio"))
                   /\ caught' = caught
    /\ UNCHANGED << env, probe, other, econRes, cache, ttl, query, call, planText, toolResponse, finalResponseText,
                    imageUrl, historicalStockData, historicalEconomicData,
                    articlesData, pending, response, ocrRes >>

\* generateAudio settles and the envelope is sent (lines 818-834).
AudioReturn(reply) ==
    /\ pc = "audio"
    /\ reply \in (IF pending.req # <<>> THEN RepliesFor("generateAudio") ELSE {NoReply})
    /\ LET result == generateAudio(finalResponseText, pending.key, reply).out
           url == IF "audioUrl" \in result.has /\ result.audioUrl # ""
                  THEN Some(result.audioUrl) ELSE Null
       IN  /\ audioResult' = Some(result)
           /\ audioUrl' = url
           /\ res' = Append(res, Envelope(finalResponseText, imageUrl, url,
                                          historicalStockData, historicalEconomicData,
                                          articlesData))
    /\ pc' = "done"
    /\ log' = Append(log, End("audio"))
    /\ UNCHANGED << env, probe, other, econRes, cache, ttl, query, call, planText, toolResponse, finalResponseText,
                    imageUrl, historicalStockData, historicalEconomicData,
                    articlesData, pending, response, ocrRes, caught >>

\* A response of /ocr or /economic-data: the status and the object passed to
\* res.json.
JsonResponse(status, body) == [status |-> status, body |-> body]

\* { error: msg }
ErrorBody(msg) == [EmptyOutcome EXCEPT !.has = {"error"}, !.error = msg]

\* req.file of a request to /ocr: absent, without a buffer, or an image.
Files == {"none", "nobuffer", "image"}

\* app.post('/ocr'): the file checks, then performOcr is awaited.  The locals
\* of the last /analyze request are gone.
OcrReceive(file) ==
    /\ pc \in {"idle", "done", "ocrDone", "econDone"}
    /\ IF file = "image"
       THEN LET key == CredentialOf("performOcr") \in env
                run == performOcr(key, NoReply)
            IN  /\ pc' = "ocr"
                /\ pending' = Pending("performOcr", NoArgs, key, NoPending.today, Null,
                                      run.req)
                /\ ocrRes' = <<>>
       ELSE /\ pc' = "ocrDone"
            /\ pending' = NoPending
            /\ ocrRes' = << JsonResponse(400, ErrorBody(
                               IF file = "none" THEN "No image file uploaded."
                               ELSE "Uploaded file is not a valid buffer.")) >>
    /\ query' = <<>>
    /\ call' = Null
    /\ planText' = ""
    /\ toolResponse' = Null
    /\ finalResponseText' = ""
    /\ imageUrl' = Null
    /\ historicalStockData' = Null
    /\ historicalEconomicData' = Null
    /\ articlesData' = Null
    /\ audioUrl' = Null
    /\ response' = NoReply
    /\ audioResult' = Null
    /\ caught' = Null
    /\ res' = <<>>
    /\ log' = <<>>
    /\ econRes' = <<>>
    /\ UNCHANGED << env, probe, other, cache, ttl >>

\* A route that answers 200 with whatever performOcr returned.
OcrReturnAlwaysOk(reply) ==
    /\ pc = "ocr"
    /\ reply \in (IF pending.req # <<>> THEN RepliesFor("performOcr") ELSE {NoReply})
    /\ LET ocrResult == performOcr(pending.key, reply).out IN
       ocrRes' = Append(ocrRes, JsonResponse(200, ocrResult))
    /\ response' = reply
    /\ pc' = "ocrDone"
    /\ UNCHANGED << env, probe, other, econRes, cache, ttl, query, call, planText, toolResponse, finalResponseText,
                    imageUrl, historicalStockData, historicalEconomicData, articlesData,
                    audioUrl, pending, audioResult, caught, res, log >>

\* performOcr settles and /ocr answers: 500 with the error, or the text.
OcrReturn(reply) ==
    /\ pc = "ocr"
    /\ reply \in (IF pending.req # <<>> THEN RepliesFor("performOcr") ELSE {NoReply})
    /\ LET ocrResult == performOcr(pending.key, reply).out IN
       ocrRes' = Append(ocrRes,
                           IF "error" \in ocrResult.has /\ ocrResult.error # ""
                           THEN JsonResponse(500, ocrResult)
                           ELSE JsonResponse(200, ocrResult))
    /\ response' = reply
    /\ pc' = "ocrDone"
    /\ UNCHANGED << env, probe, other, econRes, cache, ttl, query, call, planText, toolResponse, finalResponseText,
                    imageUrl, historicalStockData, historicalEconomicData, articlesData,
                    audioUrl, pending, audioResult, caught, res, log >>

\* req.body of a request to /economic-data (a date of -1: not an ISO date).
\* The bodies that pass validation carry no dates.
EconBody(indicatorCode, countryCode, startDate, endDate) ==
    [ indicatorCode |-> indicatorCode, countryCode |-> countryCode,
      startDate |-> startDate, endDate |-> endDate ]

EconBodies ==
    { EconBody(Undefined, Undefined, 0, 0), EconBody("cpi", Undefined, 0, 0),
      EconBody("CPI", Undefined, -1, 0), EconBody("CPI", Undefined, 0, 0),
      EconBody("CPI", "united states", 0, 0) }

\* economicDataQuerySchema.validate(req.body)
economicDataQuerySchema(body) ==
    IF /\ body.indicatorCode \in {"CPI", "PPI", "FOMC", "interest_rate", "GDP"}
       /\ body.startDate >= 0 /\ body.endDate >= 0
    THEN [error |-> FALSE,
          value |-> [body EXCEPT !.countryCode =
                        IF @ = Undefined THEN "united states" ELSE @]]
    ELSE [error |-> TRUE, value |-> body]

\* app.post('/economic-data'): validation, then getEconomicIndicatorData is
\* awaited (it runs up to its provider call).
EconReceive(body) ==
    /\ pc \in {"idle", "done", "ocrDone", "econDone"}
    /\ LET v == economicDataQuerySchema(body) IN
       IF v.error
       THEN /\ pc' = "econDone"
            /\ pending' = NoPending
            /\ econRes' = << JsonResponse(400, ErrorBody("validation")) >>
       ELSE LET args == Args(v.value.indicatorCode, Undefined, v.value.countryCode,
                             v.value.startDate, v.value.endDate)
                key == CredentialOf("getEconomicIndicatorData") \in env
                cached == CacheGet(CacheKey(args.a, args.countryCode, args.startDate,
                                            args.endDate))
                run == RunExecutor("getEconomicIndicatorData", args, key,
                                   NoPending.today, cached, NoReply)
            IN  /\ pc' = "econ"
                /\ pending' = Pending("getEconomicIndicatorData", args, key,
                                      NoPending.today, cached, run.req)
                /\ econRes' = <<>>
    /\ query' = <<>>
    /\ call' = Null
    /\ planText' = ""
    /\ toolResponse' = Null
    /\ finalResponseText' = ""
    /\ imageUrl' = Null
    /\ historicalStockData' = Null
    /\ historicalEconomicData' = Null
    /\ articlesData' = Null
    /\ audioUrl' = Null
    /\ response' = NoReply
    /\ audioResult' = Null
    /\ ocrRes' = <<>>
    /\ caught' = Null
    /\ res' = <<>>
    /\ log' = <<>>
    /\ UNCHANGED << env, probe, other, cache, ttl >>

\* A route that answers every outcome of the executor with status 200.
EconReturnAlwaysOk(reply) ==
    /\ pc = "econ"
    /\ reply \in (IF pending.req # <<>> THEN RepliesFor(pending.fn) ELSE {NoReply})
    /\ LET run == RunExecutor(pending.fn, pending.args, pending.key, pending.today,
                              pending.cached, reply)
       IN  /\ cache' = run.cache
           /\ ttl' = run.ttl
           /\ econRes' = Append(econRes, JsonResponse(200, run.out))
    /\ response' = reply
    /\ pc' = "econDone"
    /\ UNCHANGED << env, probe, other, query, call, planText, toolResponse, finalResponseText,
                    imageUrl, historicalStockData, historicalEconomicData, articlesData,
                    audioUrl, pending, audioResult, ocrRes, caught, res, log >>

\* getEconomicIndicatorData settles and /economic-data answers: 500 with the
\* error of the outcome, or the outcome itself.
EconReturn(reply) ==
    /\ pc = "econ"
    /\ reply \in (IF pending.req # <<>> THEN RepliesFor(pending.fn) ELSE {NoReply})
    /\ LET run == RunExecutor(pending.fn, pending.args, pending.key, pending.today,
                              pending.cached, reply)
           result == run.out
       IN  IF run.threw
           THEN /\ UNCHANGED << cache, ttl >>
                /\ econRes' = Append(econRes, JsonResponse(500,
                                  ErrorBody("Internal server error processing economic data.")))
           ELSE /\ cache' = run.cache
                /\ ttl' = run.ttl
                /\ econRes' = Append(econRes,
                                  IF "error" \in result.has /\ result.error # ""
                                  THEN JsonResponse(500, ErrorBody(result.error))
                                  ELSE JsonResponse(200, result))
    /\ response' = reply
    /\ pc' = "econDone"
    /\ UNCHANGED << env, probe, other, query, call, planText, toolResponse, finalResponseText,
                    imageUrl, historicalStockData, historicalEconomicData, articlesData,
                    audioUrl, pending, audioResult, ocrRes, caught, res, log >>

\* The time-to-live of an entry passes and NodeCache drops the entry.
CacheExpire(k) ==
    /\ k \in DOMAIN cache
    /\ cache' = [x \in DOMAIN cache \ {k} |-> cache[x]]
    /\ ttl' = [x \in DOMAIN ttl \ {k} |-> ttl[x]]
    /\ UNCHANGED << env, probe, other, econRes, pc, query, call, planText, toolResponse, finalResponseText,
                    imageUrl, historicalStockData, historicalEconomicData,
                    articlesData, audioUrl, pending, response, audioResult, ocrRes,
                    caught, res, log >>

\* Every step that resumes the handler: an awaited call returns or throws.
Settle ==
    \/ \E e \in ModelErrors : PlanThrow(e)
    \/ \E text \in ModelTexts : PlanNoTool(text)
    \/ \E fc \in FunctionCalls : PlanInvalidName(fc, "")
    \/ \E fc \in FunctionCalls : PlanUnrecognized(fc, "")
    \/ \E fc \in FunctionCalls : PlanArgsThrow(fc, "")
    \/ \E fc \in FunctionCalls, key \in BOOLEAN, today \in Todays \cup {NoPending.today} :
         PlanDispatch(fc, "", key, today)
    \/ \E reply \in Replies \cup {NoReply} : OcrReturn(reply)
    \/ \E reply \in Replies \cup {NoReply} : EconReturn(reply)
    \/ \E reply \in Replies \cup {NoReply} : ToolReturn(reply)
    \/ \E e \in FollowUpErrors : SynthThrow(e)
    \/ \E text \in FollowUpTexts : SynthReturn(text)
    \/ \E reply \in Replies \cup {NoReply} : AudioReturn(reply)

Next ==
    \/ \E body \in Bodies : Receive(body)
    \/ \E file \in Files : OcrReceive(file)
    \/ \E body \in EconBodies : EconReceive(body)
    \/ Settle
    \/ \E k \in DOMAIN cache : CacheExpire(k)

Spec == Init /\ [][Next]_vars

\* Every awaited call of the handler eventually returns or throws.
FairSpec == Spec /\ WF_vars(Settle)

\* ------------------------------------------------------- the cache over time
\* The seconds that pass in one step of the clock: more than half of the
\* time-to-live, so that an entry is found once within it and then past it.
TickSeconds == stdTTL \div 2 + 1

\* Time passes: every entry has that much less to live (an entry past its
\* time-to-live is kept at -1).
Tick ==
    /\ \E k \in DOMAIN ttl : ttl[k] >= 0
    /\ ttl' = [k \in DOMAIN ttl |->
                 IF ttl[k] - TickSeconds < 0 THEN -1 ELSE ttl[k] - TickSeconds]
    /\ UNCHANGED << env, probe, other, econRes, cache, pc, query, call, planText, toolResponse,
                    finalResponseText, imageUrl, historicalStockData,
                    historicalEconomicData, articlesData, audioUrl, pending, response,
                    audioResult, ocrRes, caught, res, log >>

\* The periodic check of NodeCache (checkperiod) deletes the entries whose
\* time-to-live has passed; until then they stay stored and cache.get does
\* not return them.
CheckPeriod ==
    /\ \E k \in DOMAIN ttl : ttl[k] < 0
    /\ cache' = [k \in { x \in DOMAIN cache : ttl[x] >= 0 } |-> cache[k]]
    /\ ttl' = [k \in { x \in DOMAIN ttl : ttl[x] >= 0 } |-> ttl[k]]
    /\ UNCHANGED << env, probe, other, econRes, pc, query, call, planText, toolResponse,
                    finalResponseText, imageUrl, historicalStockData,
                    historicalEconomicData, articlesData, audioUrl, pending, response,
                    audioResult, ocrRes, caught, res, log >>

\* The macro-indicator calls of the model.
MacroCalls ==
    { [name |-> JsString(<<"get_economic_indicator_data">>), args |-> a] :
        a \in ArgsOf("get_economic_indicator_data") }

\* The macro-indicator lookups of /analyze and /economic-data while time
\* passes.
TimedNext ==
    \/ Receive([query |-> JsString(<<"AAPL">>)])
    \/ \E fc \in MacroCalls, key \in BOOLEAN : PlanDispatch(fc, "", key, NoPending.today)
    \/ \E reply \in Replies \cup {NoReply} : ToolReturn(reply)
    \/ \E text \in FollowUpTexts : SynthReturn(text)
    \/ \E reply \in Replies \cup {NoReply} : AudioReturn(reply)
    \/ \E body \in EconBodies : EconReceive(body)
    \/ \E reply \in Replies \cup {NoReply} : EconReturn(reply)
    \/ Tick
    \/ CheckPeriod

TimedSpec == Init /\ [][TimedNext]_vars

\* ------------------------------------------- the series of a macro lookup
\* An item of the provider's payload carries Date, an ISO date-time with no
\* offset ("2023-01-31T22:00:00"): `day` is the part before the "T", `hour`
\* the time of day.  new Date(item.Date) reads it as local time, new
\* Date("2023-01-31") as midnight UTC; `offset` is the hours the process's
\* time zone is ahead of UTC.  An instant is counted in hours.
Days == 1..3
Hours == {0, 22}
Offsets == {-5, 0, 8}
HoursPerDay == 24

Stamps == { [day |-> d, hour |-> h] : d \in Days, h \in Hours }

\* The payloads of at most MaxItems items.
StampedPayloads == UNION { [1..n -> Stamps] : n \in 0..MaxItems }

\* new Date(item.Date)
ItemInstant(item, offset) == item.day * HoursPerDay + item.hour - offset

\* new Date(startDate), new Date(endDate) of a 'YYYY-MM-DD' argument
DayInstant(day) == day * HoursPerDay

\* the callback of data.filter (lines 277-282); a date that is not a date
\* (-1) gives an Invalid Date, which compares false with everything
Keep(item, startDate, endDate, offset) ==
    /\ startDate = 0
       \/ (startDate > 0 /\ ItemInstant(item, offset) >= DayInstant(startDate))
    /\ endDate = 0
       \/ (endDate > 0 /\ ItemInstant(item, offset) <= DayInstant(endDate))

\* data.filter(...).map(item => ({ date: item.Date.split('T')[0], ... }))
RECURSIVE FilterMap(_, _, _, _)
FilterMap(data, startDate, endDate, offset) ==
    IF data = <<>> THEN <<>>
    ELSE (IF Keep(Head(data), startDate, endDate, offset)
          THEN <<Head(data).day>> ELSE <<>>)
         \o FilterMap(Tail(data), startDate, endDate, offset)

\* const chartData = data.filter(...).map(...).sort(...)
ChartData(data, startDate, endDate, offset) ==
    SortByDate(FilterMap(data, startDate, endDate, offset))

\* The ranges a lookup is made with: 0 is an omitted date, -1 not a date.
RangeDates == {-1, 0} \cup Days

\* A payload arrives at a lookup with a range, in a process in a time zone.
SeriesInit ==
    /\ InitProcess
    /\ probe \in [ op : {"data"}, data : StampedPayloads \ {<<>>},
                    startDate : RangeDates, endDate : RangeDates,
                    offset : Offsets ]

\* The lookup builds the series of its result from the payload.
BuildChartData ==
    /\ probe.op = "data"
    /\ probe' = [ op |-> "chartData", data |-> probe.data,
                  startDate |-> probe.startDate, endDate |-> probe.endDate,
                  offset |-> probe.offset,
                  chartData |-> ChartData(probe.data, probe.startDate,
                                          probe.endDate, probe.offset) ]
    /\ UNCHANGED << env, cache, ttl, pc, query, call, planText, toolResponse,
                    finalResponseText, imageUrl, historicalStockData,
                    historicalEconomicData, articlesData, audioUrl, pending,
                    response, audioResult, ocrRes, econRes, caught, res, log,
                    other >>

SeriesNext == BuildChartData

SeriesSpec == SeriesInit /\ [][SeriesNext]_vars

\* ------------------------------------------------- one macro lookup on its own
\* The indicator codes and countries a lookup is made with.
LookupCodes == { "FOMC", "fomc", "Fomc", "interest_rate", "INTEREST_RATE", "CPI", "XYZ" }
LookupCountries == { Undefined, "united states", "United States", "Malaysia" }

\* getEconomicIndicatorData is called on an empty cache, and its provider call
\* will settle with `reply`.
MacroInit ==
    /\ InitProcess
    /\ probe \in [ op : {"args"}, indicatorCode : LookupCodes,
                    countryCode : LookupCountries, startDate : {0, 2},
                    endDate : {0, 2}, reply : Replies ]

\* getEconomicIndicatorData returns.
MacroReturns ==
    /\ probe.op = "args"
    /\ LET run == getEconomicIndicatorData(probe.indicatorCode, probe.countryCode,
                       probe.startDate, probe.endDate, Null,
                       "TRADING_ECONOMICS_API_KEY" \in env, probe.reply)
       IN  /\ probe' = [ op |-> "getEconomicIndicatorData",
                         indicatorCode |-> probe.indicatorCode,
                         countryCode |-> probe.countryCode,
                         startDate |-> probe.startDate, endDate |-> probe.endDate,
                         reply |-> probe.reply, run |-> run ]
           /\ cache' = run.cache
           /\ ttl' = run.ttl
    /\ UNCHANGED << env, pc, query, call, planText, toolResponse,
                    finalResponseText, imageUrl, historicalStockData,
                    historicalEconomicData, articlesData, audioUrl, pending,
                    response, audioResult, ocrRes, econRes, caught, res, log,
                    other >>

MacroNext == MacroReturns

MacroSpec == MacroInit /\ [][MacroNext]_vars

\* ------------------------------------------- one historical lookup on its own
\* The tickers and periods a lookup is made with (Undefined: omitted).
LookupTickers == { "aapl", "nasdaq", Undefined }
LookupPeriods == { Undefined, "daily", "weekly", "monthly", "hourly", "Daily", "" }

\* getHistoricalStockData is called, and its provider call will settle with
\* `reply`.
HistoricalInit ==
    /\ InitProcess
    /\ probe \in [ op : {"args"}, ticker : LookupTickers, period : LookupPeriods,
                    reply : Replies ]

\* getHistoricalStockData returns or throws.
HistoricalReturns ==
    /\ probe.op = "args"
    /\ probe' = [ op |-> "getHistoricalStockData", ticker |-> probe.ticker,
                  period |-> probe.period, reply |-> probe.reply,
                  run |-> getHistoricalStockData(probe.ticker, probe.period,
                              "ALPHA_VANTAGE_API_KEY" \in env, probe.reply) ]
    /\ UNCHANGED << env, cache, ttl, pc, query, call, planText, toolResponse,
                    finalResponseText, imageUrl, historicalStockData,
                    historicalEconomicData, articlesData, audioUrl, pending,
                    response, audioResult, ocrRes, econRes, caught, res, log,
                    other >>

HistoricalNext == HistoricalReturns

HistoricalSpec == HistoricalInit /\ [][HistoricalNext]_vars

\* ----------------------------------------------- the articles of a news lookup
\* response.data.articles: the provider was asked for at most MaxArticles
\* articles and sends as many as it pleases, up to one more than that.
ArticleLists == UNION { [1..n -> 1..MaxItems] : n \in 0..(MaxArticles + 1) }

NewsReplies ==
    { [kind |-> "ok", status |-> 200, items |-> a] : a \in ArticleLists }
    \cup { r \in Replies : r.kind # "ok" }

\* fetchNews is called, and its provider call will settle with `reply`.
NewsInit ==
    /\ InitProcess
    /\ probe \in [ op : {"reply"}, key : BOOLEAN, reply : NewsReplies ]

\* fetchNews returns.
FetchNewsReturns ==
    /\ probe.op = "reply"
    /\ probe' = [ op |-> "fetchNews", key |-> probe.key, reply |-> probe.reply,
                  run |-> fetchNews("tesla", probe.key, probe.reply) ]
    /\ UNCHANGED << env, cache, ttl, pc, query, call, planText, toolResponse,
                    finalResponseText, imageUrl, historicalStockData,
                    historicalEconomicData, articlesData, audioUrl, pending,
                    response, audioResult, ocrRes, econRes, caught, res, log,
                    other >>

NewsNext == FetchNewsReturns

NewsSpec == NewsInit /\ [][NewsNext]_vars

\* --------------------------------------------------- two concurrent requests
\* A handler whose imageUrl is a module-level variable: both requests see it.
SwitchSharedImageUrl ==
    /\ other # Locals
    /\ pc' = other.pc
    /\ query' = other.query
    /\ call' = other.call
    /\ planText' = other.planText
    /\ toolResponse' = other.toolResponse
    /\ finalResponseText' = other.finalResponseText
    /\ imageUrl' = imageUrl
    /\ historicalStockData' = other.historicalStockData
    /\ historicalEconomicData' = other.historicalEconomicData
    /\ articlesData' = other.articlesData
    /\ audioUrl' = other.audioUrl
    /\ pending' = other.pending
    /\ response' = other.response
    /\ audioResult' = other.audioResult
    /\ ocrRes' = other.ocrRes
    /\ econRes' = other.econRes
    /\ caught' = other.caught
    /\ res' = other.res
    /\ log' = other.log
    /\ other' = Locals
    /\ UNCHANGED << env, probe, cache, ttl >>

\* The event loop turns from the request it was running, now at an await (or
\* answered), to the other request: each has its own `chat`, `call` and
\* `let` locals (lines 704-721); the cache and process.env are the module's.
Switch ==
    /\ other # Locals
    /\ pc' = other.pc
    /\ query' = other.query
    /\ call' = other.call
    /\ planText' = other.planText
    /\ toolResponse' = other.toolResponse
    /\ finalResponseText' = other.finalResponseText
    /\ imageUrl' = other.imageUrl
    /\ historicalStockData' = other.historicalStockData
    /\ historicalEconomicData' = other.historicalEconomicData
    /\ articlesData' = other.articlesData
    /\ audioUrl' = other.audioUrl
    /\ pending' = other.pending
    /\ response' = other.response
    /\ audioResult' = other.audioResult
    /\ ocrRes' = other.ocrRes
    /\ econRes' = other.econRes
    /\ caught' = other.caught
    /\ res' = other.res
    /\ log' = other.log
    /\ other' = Locals
    /\ UNCHANGED << env, probe, cache, ttl >>

\* The calls the model makes in the concurrent runs: one tool per side
\* channel of the envelope.
ConcCalls ==
    { [name |-> JsString(<<"generate_image_tool">>),
       args |-> Args("market infographic", Undefined, Undefined, 0, 0)],
      [name |-> JsString(<<"fetch_news">>),
       args |-> Args("tesla", Undefined, Undefined, 0, 0)],
      [name |-> JsString(<<"get_historical_stock_data">>),
       args |-> Args("aapl", Undefined, Undefined, 0, 0)],
      [name |-> JsString(<<"get_economic_indicator_data">>),
       args |-> Args("CPI", Undefined, Undefined, 0, 0)] }

\* The replies of the providers in the concurrent runs: a payload of one
\* item, an empty payload, a rejection.
ConcReplies ==
    { r \in Replies : r.kind = "ok" /\ Len(r.items) <= 1 }
    \cup { [kind |-> "fail", status |-> 0, items |-> <<>>], NoReply }

\* Two requests to /analyze in the process at once.
ConcNext ==
    \/ Receive([query |-> JsString(<<"AAPL">>)])
    \/ PlanNoTool("direct answer")
    \/ \E fc \in ConcCalls, key \in BOOLEAN : PlanDispatch(fc, "", key, NoPending.today)
    \/ \E reply \in ConcReplies : ToolReturn(reply)
    \/ SynthReturn("follow-up answer")
    \/ \E reply \in ConcReplies : AudioReturn(reply)
    \/ Switch

ConcSpec == Init /\ [][ConcNext]_vars

\* Macro-indicator lookups of two requests at once, from /analyze and from
\* /economic-data, for the same key and for different keys.
LookupNext ==
    \/ Receive([query |-> JsString(<<"AAPL">>)])
    \/ \E fc \in MacroCalls, key \in BOOLEAN : PlanDispatch(fc, "", key, NoPending.today)
    \/ \E reply \in ConcReplies : ToolReturn(reply)
    \/ SynthReturn("")
    \/ \E body \in EconBodies : EconReceive(body)
    \/ \E reply \in ConcReplies : EconReturn(reply)
    \/ Switch

LookupSpec == Init /\ [][LookupNext]_vars

\* ------------------------------------------ the codes /economic-data is sent
\* req.body.indicatorCode: the five codes of the schema, other spellings of
\* them, a code of no indicator, none.
EconCodes ==
    { "CPI", "PPI", "FOMC", "interest_rate", "GDP", "cpi", "Fomc",
      "INTEREST_RATE", "XYZ", Undefined }

EconCodeBodies == { EconBody(c, Undefined, 0, 0) : c \in EconCodes }

\* Requests to /economic-data, one after the other.
EconNext ==
    \/ \E body \in EconCodeBodies : EconReceive(body)
    \/ \E reply \in ConcReplies : EconReturn(reply)

EconSpec == Init /\ [][EconNext]_vars

\* ------------------------------------------------------------- ChartService
\* The symbols getMultipleStocksData is called with; a symbol may repeat.
ChartSymbols == {"AAPL", "MSFT"}
SymbolLists == UNION { [1..n -> ChartSymbols] : n \in 0..MaxSymbols }

\* What axios.get settles with for one symbol: a time series, a body with no
\* time series, a body whose entries make formatChartData throw, a rejection.
ChartReplies ==
    { r \in Replies : r.kind = "ok" /\ r.items \in {<<1>>, <<2, 1>>} }
    \cup { r \in Replies : r.kind \in {"errmsg", "malformed"} }
    \cup { [kind |-> "fail", status |-> 0, items |-> <<>>] }

\* Array.prototype.slice(-n)
LastN(s, n) == IF Len(s) <= n THEN s ELSE SubSeq(s, Len(s) - n + 1, Len(s))

\* formatChartData(rawData, symbol, timespan)
formatChartData(reply, symbol) ==
    IF reply.kind = "ok"
    THEN [symbol |-> symbol, data |-> LastN(SortByDate(reply.items), ChartPoints)]
    ELSE [symbol |-> symbol, data |-> <<>>]

\* A fetch that has not settled, and how getStockData settles: its promise is
\* fulfilled with the formatted data, or rejected from its catch block.
PendingFetch(symbol) ==
    [status |-> "pending", symbol |-> symbol, value |-> formatChartData(NoReply, symbol)]

ChartServiceGetStockData(symbol, reply) ==
    IF reply.kind \in {"fail", "malformed"}
    THEN [status |-> "rejected", symbol |-> symbol,
          value |-> formatChartData(NoReply, symbol)]
    ELSE [status |-> "fulfilled", symbol |-> symbol,
          value |-> formatChartData(reply, symbol)]

\* results.filter(result => result.status === 'fulfilled').map(result => result.value)
RECURSIVE FulfilledValues(_)
FulfilledValues(results) ==
    IF results = <<>> THEN <<>>
    ELSE (IF Head(results).status = "fulfilled" THEN <<Head(results).value>> ELSE <<>>)
         \o FulfilledValues(Tail(results))

\* Promise.all(promises): settles as soon as one promise is rejected.
PromiseAll(promises) ==
    IF \E i \in DOMAIN promises : promises[i].status = "rejected"
    THEN [settled |-> TRUE, status |-> "rejected", results |-> <<>>]
    ELSE IF \A i \in DOMAIN promises : promises[i].status = "fulfilled"
    THEN [settled |-> TRUE, status |-> "fulfilled", results |-> promises]
    ELSE [settled |-> FALSE, status |-> "pending", results |-> <<>>]

\* Promise.allSettled(promises): fulfilled with every outcome, once no promise
\* is pending.
PromiseAllSettled(promises) ==
    IF \A i \in DOMAIN promises : promises[i].status # "pending"
    THEN [settled |-> TRUE, status |-> "fulfilled", results |-> promises]
    ELSE [settled |-> FALSE, status |-> "pending", results |-> <<>>]

\* No call of getMultipleStocksData is in progress.
ChartInit ==
    /\ InitProcess
    /\ probe = [op |-> "idle"]

\* getMultipleStocksData(symbols): symbols.map starts one getStockData per
\* symbol, each running up to its axios.get.
MultipleStocksCall(symbols) ==
    /\ probe.op \in {"idle", "fulfilled", "rejected"}
    /\ probe' = [ op |-> "awaiting", symbols |-> symbols,
                  promises |-> [i \in DOMAIN symbols |-> PendingFetch(symbols[i])] ]
    /\ UNCHANGED << env, cache, ttl, pc, query, call, planText, toolResponse,
                    finalResponseText, imageUrl, historicalStockData,
                    historicalEconomicData, articlesData, audioUrl, pending,
                    response, audioResult, ocrRes, econRes, caught, res, log,
                    other >>

\* The provider call of one of the fetches settles, in any order.
StockDataSettles(i, reply) ==
    /\ probe.op = "awaiting"
    /\ i \in DOMAIN probe.promises
    /\ probe.promises[i].status = "pending"
    /\ probe' = [probe EXCEPT !.promises[i] =
                                ChartServiceGetStockData(probe.symbols[i], reply)]
    /\ UNCHANGED << env, cache, ttl, pc, query, call, planText, toolResponse,
                    finalResponseText, imageUrl, historicalStockData,
                    historicalEconomicData, articlesData, audioUrl, pending,
                    response, audioResult, ocrRes, econRes, caught, res, log,
                    other >>

\* `await Promise.allSettled(promises)` resumes and the method returns.
MultipleStocksReturn ==
    /\ probe.op = "awaiting"
    /\ LET all == PromiseAllSettled(probe.promises) IN
       /\ all.settled
       /\ probe' = [ op |-> all.status, symbols |-> probe.symbols,
                     promises |-> probe.promises,
                     value |-> FulfilledValues(all.results) ]
    /\ UNCHANGED << env, cache, ttl, pc, query, call, planText, toolResponse,
                    finalResponseText, imageUrl, historicalStockData,
                    historicalEconomicData, articlesData, audioUrl, pending,
                    response, audioResult, ocrRes, econRes, caught, res, log,
                    other >>

ChartNext ==
    \/ \E symbols \in SymbolLists : MultipleStocksCall(symbols)
    \/ \E i \in 1..MaxSymbols, reply \in ChartReplies : StockDataSettles(i, reply)
    \/ MultipleStocksReturn

ChartSpec == ChartInit /\ [][ChartNext]_vars

\* ----------------------------------------------------------------- properties
\* The places in the log where a call of kind `op` starts.
Started(op) == { i \in DOMAIN log : log[i].ev = "start" /\ log[i].op = op }

\* A name that is missing, not a string, empty or made of whitespace only.
NameUnusable(n) ==
    n.typ # "string" \/ \A i \in DOMAIN n.chars : n.chars[i] \in Whitespace

\* A name that is one of the eight names declared to the model.
NameRegistered(n) == n.typ = "string" /\ \E t \in Tools : n.chars = <<t>>

\* The executor each declared tool is bound to.
BoundExecutor(chars) ==
    CASE chars = <<"fetch_news">> -> "fetchNews"
      [] chars = <<"get_stock_data">> -> "getStockData"
      [] chars = <<"get_bursa_announcements">> -> "getBursaAnnouncements"
      [] chars = <<"analyze_social_sentiment">> -> "analyzeSocialSentiment"
      [] chars = <<"get_economic_indicator_data">> -> "getEconomicIndicatorData"
      [] chars = <<"get_historical_stock_data">> -> "getHistoricalStockData"
      [] chars = <<"get_bursa_historical_data">> -> "getBursaHistoricalData"
      [] chars = <<"generate_image_tool">> -> "generateImage"

\* The data field the success payload of each declared tool carries.
DataFieldOf(chars) ==
    CASE chars = <<"fetch_news">> -> "articles"
      [] chars = <<"get_stock_data">> -> "stock_data"
      [] chars = <<"get_bursa_announcements">> -> "announcements"
      [] chars = <<"analyze_social_sentiment">> -> "sentiment_data"
      [] chars = <<"get_economic_indicator_data">> -> "historical_economic_data"
      [] chars = <<"get_historical_stock_data">> -> "historical_data"
      [] chars = <<"get_bursa_historical_data">> -> "historical_data"
      [] chars = <<"generate_image_tool">> -> "imageUrl"

NoToolWork == Started("tool") = {} /\ Started("synth") = {} /\ Started("audio") = {}

\* C1: every request that passed validation ends in exactly one response:
\* never two responses, a finished handler has sent one, and a handler that
\* waits for an external call eventually finishes.
C1_ExactlyOneResponse ==
    /\ [](Len(res) <= 1)
    /\ [](pc = "done" => Len(res) = 1)
    /\ [](pc \in {"plan", "tool", "synth", "audio"} => <>(pc = "done"))

\* The synthesis call threw after a tool had run, and one response was sent.
C1_Witness ==
    pc = "done" /\ Len(res) = 1 /\ caught # Null /\ toolResponse # Null

\* C2: a function call whose name is missing, not a string, empty or blank is
\* answered with the 'invalid function call' error, status 500, with no
\* executor, synthesis or audio call; the error differs from the
\* unrecognized-tool error and from every message of the catch block.
C2_InvalidNameRejected ==
    \A fc \in call : NameUnusable(fc.name) =>
        /\ pc = "done"
        /\ Len(res) = 1
        /\ res[1].status = 500
        /\ res[1].error = "AI service returned an invalid function call (empty name)."
        /\ NoToolWork
        /\ res[1].error # UnrecognizedResponse(fc.name.chars).error
        /\ \A e \in ModelErrors \cup {TypeErrorValue} : res[1].error # UserErrorMessage(e)

\* A whitespace-only name was answered.
C2_Witness ==
    \E fc \in call : fc.name = JsString(<<" ", "\t">>) /\ pc = "done" /\ Len(res) = 1

\* C3: a function call whose non-empty name is not a declared tool is answered
\* with the 'unrecognized function' error, status 400, naming the tool, with no
\* executor, synthesis or audio call.
C3_UnrecognizedRejected ==
    \A fc \in call : (~NameUnusable(fc.name) /\ ~NameRegistered(fc.name)) =>
        /\ pc = "done"
        /\ Len(res) = 1
        /\ res[1].status = 400
        /\ res[1].error = "AI requested an unrecognized function."
        /\ res[1].named = Some(fc.name.chars)
        /\ NoToolWork

\* A declared name with a leading blank was answered as unrecognized.
C3_Witness ==
    \E fc \in call : fc.name = JsString(<<" ", "fetch_news">>) /\ pc = "done"
                     /\ Len(res) = 1

\* C4 (as claimed): whenever the executed tool returned an error outcome, the
\* request ends with status 200, the follow-up text as summary, and no
\* historical data.
C4_ToolErrorAbsorbed ==
    \A out \in toolResponse : (pc = "done" /\ "error" \in out.has) =>
        /\ Len(res) = 1
        /\ res[1].status = 200
        /\ res[1].summary = finalResponseText
        /\ res[1].historicalStockData = Null
        /\ res[1].historicalEconomicData = Null

C6_FallbackApology ==
    \A out \in toolResponse : \A fc \in call :
        (pc = "done" /\ "error" \in out.has /\ caught # Null) =>
            /\ Len(res) = 1
            /\ res[1].summary # ""
            /\ res[1].named = Some(fc.name.chars)

\* C7: every outcome an executor returns to the dispatch step has either an
\* error and no data field, or no error and the data field of its tool.
C7_OutcomeExclusive ==
    \A out \in toolResponse : \A fc \in call :
        IF "error" \in out.has
        THEN out.error # "" /\ out.has \cap DataFields = {}
        ELSE DataFieldOf(fc.name.chars) \in out.has

\* The outcome of a macro-indicator lookup served from the cache.
C7_Witness ==
    /\ pc = "synth"
    /\ pending.fn = "getEconomicIndicatorData"
    /\ pending.cached # Null
    /\ toolResponse # Null

\* C8: at most one executor runs per query, once, and it is the one bound to
\* the name the model chose; none runs when the model names no tool.
C8_OneExecutor ==
    /\ Cardinality(Started("tool")) <= 1
    /\ call = Null => Started("tool") = {}
    /\ \A i \in Started("tool") : \A fc \in call :
           NameRegistered(fc.name) /\ log[i].fn = BoundExecutor(fc.name.chars)
    /\ toolResponse # Null => Cardinality(Started("tool")) = 1

\* The executor failed and the query finished: it ran once.
C8_Witness ==
    \E out \in toolResponse :
        pc = "done" /\ "error" \in out.has /\ Cardinality(Started("tool")) = 1
        /\ Cardinality(Started("synth")) = 1

\* The place of each external call in the order of a query.
Rank(op) == CASE op = "plan" -> 1 [] op = "tool" -> 2 [] op = "synth" -> 3 [] op = "audio" -> 4

\* C9: the external calls of a query are sequential and ordered: each call
\* ends before the next starts, planning precedes the tool, the tool precedes
\* synthesis, synthesis precedes audio, and a response is sent only when no
\* call is in flight.
C9_Sequential ==
    /\ \A i \in DOMAIN log : log[i].ev = "start" =>
           i = Len(log) \/ (log[i + 1].ev = "end" /\ log[i + 1].op = log[i].op)
    /\ \A i, j \in DOMAIN log :
           (i < j /\ log[i].ev = "start" /\ log[j].ev = "start") =>
               Rank(log[i].op) < Rank(log[j].op)
    /\ log # <<>> => log[1].ev = "start" /\ log[1].op = "plan"
    /\ Started("synth") # {} => Started("tool") # {}
    /\ res # <<>> => log = <<>> \/ log[Len(log)].ev = "end"

\* A query that made all four calls and was answered.
C9_Witness ==
    /\ pc = "done" /\ Len(res) = 1 /\ res[1].status = 200
    /\ \A op \in {"plan", "tool", "synth", "audio"} : Started(op) # {}

\* C10 (as claimed): every query that reaches the envelope attempted audio
\* synthesis exactly once, whatever the summary text.
C10_AudioAlways ==
    (pc = "done" /\ Len(res) = 1 /\ res[1].status = 200) =>
        Cardinality(Started("audio")) = 1

\* C10 (amended): audio synthesis is attempted exactly once when the summary
\* text is non-empty and not at all when it is empty, whichever tool ran and
\* whatever its outcome.
C10_AudioIffText ==
    /\ pc = "audio" => Cardinality(Started("audio")) = 1
    /\ (pc = "done" /\ Len(res) = 1 /\ res[1].status = 200) =>
           Cardinality(Started("audio")) = (IF res[1].summary # "" THEN 1 ELSE 0)

\* A failed tool, a non-empty summary, and one audio attempt.
C10_Witness ==
    \E out \in toolResponse :
        /\ pc = "done" /\ "error" \in out.has
        /\ Len(res) = 1 /\ res[1].status = 200 /\ res[1].summary # ""
        /\ Cardinality(Started("audio")) = 1

\* The name of the tool the model chose is `t`.
Chose(t) == \E fc \in call : fc.name = JsString(<<t>>)

\* The request ended with the envelope (a 2xx response).
Enveloped == pc = "done" /\ Len(res) = 1 /\ res[1].status = 200

\* C11: a failure of audio generation leaves the status at 200 and the
\* envelope as the handler had built it, with audioUrl empty; audioUrl is set
\* only if generateAudio made its provider call and returned an audioUrl.
C11_AudioFailureSwallowed ==
    /\ \A r \in audioResult : pc = "done" =>
           /\ Len(res) = 1
           /\ res[1].status = 200
           /\ res[1].summary = finalResponseText
           /\ res[1].imageUrl = imageUrl
           /\ res[1].historicalStockData = historicalStockData
           /\ res[1].historicalEconomicData = historicalEconomicData
           /\ res[1].articles = articlesData
           /\ "error" \in r.has => res[1].audioUrl = Null
    /\ \A i \in DOMAIN res : res[i].audioUrl # Null =>
           /\ \E r \in audioResult : "audioUrl" \in r.has /\ "error" \notin r.has
           /\ pending.fn = "generateAudio" /\ pending.key /\ pending.req # <<>>

\* The provider of the audio step failed after a tool had delivered a series.
C11_Witness ==
    /\ pc = "done" /\ pending.key /\ pending.req # <<>>
    /\ \E r \in audioResult : "error" \in r.has
    /\ Len(res) = 1 /\ res[1].status = 200 /\ res[1].summary # ""
    /\ res[1].historicalStockData # Null

\* C12: when the model names no tool, no executor and no follow-up call is
\* made, the request ends with the envelope, its summary is the model's direct
\* text, and imageUrl, both series and articles are empty.
C12_NoToolDirectText ==
    /\ (call = Null /\ log # <<>>) => Started("tool") = {} /\ Started("synth") = {}
    /\ (pc = "done" /\ call = Null /\ log # <<>> /\ caught = Null) =>
           /\ Enveloped
           /\ res[1].summary = planText
           /\ res[1].imageUrl = Null
           /\ res[1].historicalStockData = Null
           /\ res[1].historicalEconomicData = Null
           /\ res[1].articles = Null

\* A direct answer was returned with audio.
C12_Witness ==
    /\ Enveloped /\ call = Null
    /\ res[1].summary = "direct answer" /\ res[1].audioUrl # Null

\* C13: in the envelope, historicalStockData is set only from the
\* historical_data of a successful historical-series tool,
\* historicalEconomicData only from the historical_economic_data of a successful
\* macro-indicator tool, never both; the quote, news, announcements, sentiment
\* and image tools leave both empty.
C13_SeriesExclusive ==
    Enveloped =>
        /\ res[1].historicalStockData # Null =>
               /\ Chose("get_historical_stock_data") \/ Chose("get_bursa_historical_data")
               /\ \E out \in toolResponse :
                      /\ "error" \notin out.has /\ "historical_data" \in out.has
                      /\ res[1].historicalStockData = Some(out.historical_data)
        /\ res[1].historicalEconomicData # Null =>
               /\ Chose("get_economic_indicator_data")
               /\ \E out \in toolResponse :
                      /\ "error" \notin out.has /\ "historical_economic_data" \in out.has
                      /\ res[1].historicalEconomicData = Some(out.historical_economic_data)
        /\ res[1].historicalStockData = Null \/ res[1].historicalEconomicData = Null
        /\ (\E t \in { "get_stock_data", "fetch_news", "get_bursa_announcements",
                        "analyze_social_sentiment", "generate_image_tool" } : Chose(t)) =>
               res[1].historicalStockData = Null /\ res[1].historicalEconomicData = Null

\* A macro-indicator series was returned, and no stock series with it.
C13_Witness ==
    /\ Enveloped
    /\ res[1].historicalEconomicData # Null
    /\ res[1].historicalStockData = Null

\* C14: in the envelope, imageUrl is set only if the model chose
\* generate_image_tool and the executor returned an image with no error; when
\* that tool fails, imageUrl is empty.
C14_ImageOnlyFromImageTool ==
    Enveloped =>
        /\ res[1].imageUrl # Null =>
               /\ Chose("generate_image_tool")
               /\ \E out \in toolResponse :
                      /\ "error" \notin out.has /\ "imageUrl" \in out.has
                      /\ res[1].imageUrl = Some(out.imageUrl)
        /\ \A out \in toolResponse :
               (Chose("generate_image_tool") /\ "error" \in out.has) =>
                   res[1].imageUrl = Null

\* The image tool failed at its provider and the envelope has no image.
C14_Witness ==
    /\ Enveloped /\ Chose("generate_image_tool")
    /\ \E out \in toolResponse : "error" \in out.has
    /\ \E i \in Started("tool") : log[i].req # <<>>
    /\ res[1].imageUrl = Null

\* C15: in the envelope, articles is set only if the model chose fetch_news
\* and the executor returned a non-empty list of articles, which is the list
\* in the envelope.
C15_ArticlesOnlyFromNews ==
    Enveloped =>
        (res[1].articles # Null =>
            /\ Chose("fetch_news")
            /\ \E out \in toolResponse :
                   /\ "error" \notin out.has /\ "articles" \in out.has
                   /\ Len(out.articles) > 0
                   /\ res[1].articles = Some(out.articles))

\* A news lookup that found nothing: the provider answered, articles is empty.
C15_Witness ==
    /\ Enveloped /\ Chose("fetch_news")
    /\ \E out \in toolResponse : out.error = "No news articles found."
    /\ res[1].articles = Null

\* The indicator codes the macro-indicator executor supports, in any case.
IndicatorSupported(a) ==
    a \in { "CPI", "cpi", "PPI", "ppi", "FOMC", "fomc", "interest_rate",
            "INTEREST_RATE", "GDP", "gdp" }

\* The macro-indicator executor has run for the pending call of the model.
MacroRan == pending.fn = "getEconomicIndicatorData" /\ pc \in {"synth", "done"}

\* The text that lists the supported indicator codes.
SupportedSetText ==
    "I can only fetch data for 'CPI', 'PPI', 'FOMC' (for US interest rates), 'interest_rate', or 'GDP'."

ProxyTicker(t) ==
    CASE t \in {"nasdaq", "^IXIC", "Nasdaq 100", "compq"} -> "QQQ"
      [] t \in {"S&P 500", "sp500", "^gspc"} -> "SPY"
      [] t \in {"DOW JONES", "dow", "^DJI"} -> "DIA"
      [] t \in {"aapl", "AAPL"} -> "AAPL"

\* C17: the historical-series executor asks the provider for the proxy ticker
\* of an index alias (matched in any case), never for the alias, and reports
\* the proxy in its result; any other ticker is asked for in upper case.
C17_AliasMapped ==
    (pending.fn = "getHistoricalStockData" /\ pending.args.a # Undefined) =>
        /\ pending.req # <<>> => pending.req[3] = ProxyTicker(pending.args.a)
        /\ \A i \in Started("tool") :
               log[i].req # <<>> => log[i].req[3] = ProxyTicker(pending.args.a)
        /\ \A out \in toolResponse :
               "ticker" \in out.has => out.ticker = ProxyTicker(pending.args.a)

\* The alias "compq" was asked for as QQQ and the series is reported for QQQ.
C17_Witness ==
    /\ pending.fn = "getHistoricalStockData" /\ pending.args.a = "compq"
    /\ pending.req = <<"alphavantage", "TIME_SERIES_DAILY_ADJUSTED", "QQQ">>
    /\ \E out \in toolResponse : "historical_data" \in out.has /\ out.ticker = "QQQ"

\* The dates of a series.
DatesOf(series) == { series[i] : i \in DOMAIN series }

\* A series whose dates ascend.
Ascending(series) == \A i, j \in DOMAIN series : i < j => series[i] < series[j]

\* C18: the series the historical-series executor returns is fixed by the
\* upstream payload alone: one point per upstream entry, the same dates, in
\* ascending order of date - so two runs on the same arguments and the same
\* payload return the same series, whatever the cache and the other requests
\* did in between.
C18_SeriesDetermined ==
    (pc = "synth" /\ pending.fn = "getHistoricalStockData") =>
        \A out \in toolResponse :
            /\ "historical_data" \in out.has =>
                   /\ response.kind = "ok"
                   /\ Len(out.historical_data) = Len(response.items)
                   /\ DatesOf(out.historical_data) = DatesOf(response.items)
                   /\ Ascending(out.historical_data)
            /\ (response.kind = "ok" /\ response.items # <<>>) =>
                   "historical_data" \in out.has

\* An upstream series sent latest-first came back in ascending order.
C18_Witness ==
    /\ pc = "synth" /\ pending.fn = "getHistoricalStockData"
    /\ response.kind = "ok" /\ response.items = <<2, 1>>
    /\ \E out \in toolResponse : out.historical_data = <<1, 2>>

\* C19: every cache entry is a success payload of the macro-indicator
\* executor with no error, and a step creates or changes an entry only when
\* that executor, with its credential, after a cache miss, gets a non-empty
\* payload from its provider: the entry is the result it returns, under the
\* key of its arguments.  Every other step leaves the entries as they are
\* (expiry only removes entries).
C19_CacheWriteOnSuccess ==
    /\ [](\A k \in DOMAIN cache :
             /\ "error" \notin cache[k].has
             /\ "historical_economic_data" \in cache[k].has)
    /\ [][\A k \in DOMAIN cache' :
             (k \notin DOMAIN cache \/ cache'[k] # cache[k]) =>
                 /\ \/ pc = "tool" /\ pc' = "synth" /\ toolResponse' = Some(cache'[k])
                    \/ pc = "econ" /\ pc' = "econDone"
                       /\ econRes' = <<JsonResponse(200, cache'[k])>>
                 /\ pending.fn = "getEconomicIndicatorData"
                 /\ pending.key /\ pending.cached = Null /\ pending.req # <<>>
                 /\ response'.kind = "ok" /\ response'.items # <<>>
                 /\ k = CacheKey(pending.args.a, pending.args.countryCode,
                                 pending.args.startDate, pending.args.endDate)
                 /\ \A x \in DOMAIN cache \ {k} :
                        x \in DOMAIN cache' /\ cache'[x] = cache[x]]_vars

\* With an entry in the cache, a macro-indicator lookup failed at its provider.
C19_Witness ==
    /\ DOMAIN cache # {}
    /\ pc = "synth" /\ pending.fn = "getEconomicIndicatorData" /\ pending.req # <<>>
    /\ \E out \in toolResponse : "error" \in out.has

\* The credential of each executor that needs one, and the error it reports
\* when the credential is missing.
KeyFor(fn) ==
    CASE fn = "fetchNews" -> "GNEWS_API_KEY"
      [] fn = "getStockData" -> "ALPHA_VANTAGE_API_KEY"
      [] fn = "getHistoricalStockData" -> "ALPHA_VANTAGE_API_KEY"
      [] fn = "getEconomicIndicatorData" -> "TRADING_ECONOMICS_API_KEY"
      [] fn = "generateImage" -> "STABILITY_AI_API_KEY"

KeyError(fn) ==
    CASE fn = "fetchNews" -> "GNews API key not found."
      [] fn = "getStockData" -> "Alpha Vantage API key not found."
      [] fn = "getHistoricalStockData" -> "Alpha Vantage API key not found."
      [] fn = "getEconomicIndicatorData" -> "Trading Economics API key not found."
      [] fn = "generateImage" -> "Stability AI API key not found."

\* C20: an executor whose credential is missing from the environment makes no
\* provider call and returns its 'key not found' error with no data: the news,
\* quote, historical-series, macro-indicator and image executors to the
\* dispatch step, generateAudio to the audio step, performOcr to /ocr; and the
\* server accepts the next request once the handler has answered.
C20_MissingCredential ==
    /\ \A fn \in { "fetchNews", "getStockData", "getHistoricalStockData",
                    "getEconomicIndicatorData", "generateImage" } :
           (pending.fn = fn /\ KeyFor(fn) \notin env) =>
               /\ pending.req = <<>>
               /\ \A i \in Started("tool") : log[i].req = <<>>
               /\ pc = "econDone" =>
                      econRes = <<JsonResponse(500, ErrorBody(KeyError(fn)))>>
               /\ pc \in {"synth", "done"} =>
                      \E out \in toolResponse :
                          /\ "error" \in out.has /\ out.error = KeyError(fn)
                          /\ out.has \cap DataFields = {}
    /\ "TRADING_ECONOMICS_API_KEY" \notin env => DOMAIN cache = {}
    /\ "ELEVENLABS_API_KEY" \notin env =>
           /\ \A i \in Started("audio") : log[i].req = <<>>
           /\ \A r \in audioResult :
                  /\ r.has = {"error"} /\ r.error = "ElevenLabs API key not found."
                  /\ Enveloped /\ res[1].audioUrl = Null
    /\ ("OCR_SPACE_API_KEY" \notin env /\ pending.fn = "performOcr") =>
           /\ pending.req = <<>>
           /\ pc = "ocrDone" =>
                  /\ Len(ocrRes) = 1
                  /\ ocrRes[1].status = 500
                  /\ ocrRes[1].body.error = "OCR.space API key not found."
    /\ pc \in {"done", "ocrDone", "econDone"} =>
           /\ ENABLED (\E body \in Bodies : Receive(body))
           /\ ENABLED (\E file \in Files : OcrReceive(file))
           /\ ENABLED (\E body \in EconBodies : EconReceive(body))

\* With no credential set, a quote was asked for and answered: the executor
\* and the audio step both returned their 'key not found' error.
C20_Witness ==
    /\ env = {} /\ Enveloped /\ Chose("get_stock_data")
    /\ \E out \in toolResponse : out.error = "Alpha Vantage API key not found."
    /\ \E r \in audioResult : r.error = "ElevenLabs API key not found."

\* C21 (as claimed): no executor throws to the dispatch step: whenever the
\* call of an executor has settled, for any arguments the model supplied, the
\* dispatch step holds the outcome the executor returned.
C21_NoExecutorThrows ==
    (Started("tool") # {} /\ pc # "tool") => toolResponse # Null

\* The causes the catch block tells apart, in the order it tests them, and the
\* message of each: a function-call problem (the error speaks of functionCall
\* and not of a response), an API-key problem, rate limiting, an upstream HTTP
\* error, anything else.
CauseHolds(e, i) ==
    CASE i = 1 -> "functionCall" \in e.message /\ "response" \notin e.message
      [] i = 2 -> "API key" \in e.message
      [] i = 3 -> e.status = 429
      [] i = 4 -> "Request failed with status code" \in e.message
      [] i = 5 -> TRUE

CauseMessages ==
    << "I'm having trouble figuring out how to fulfill your request with my available tools.",
       "I'm experiencing an issue connecting to my AI service.",
       "My AI service is experiencing high demand.",
       "A service I rely on responded with an error.",
       "I'm sorry, I encountered a critical error processing your request." >>

\* C22: an exception thrown by the planning call, by an executor or by the
\* follow-up call ends the request in the catch block: one response, status
\* 500, no envelope, `details` the message of the error and `error` the
\* message of the first cause that holds, in the order function-call problem,
\* API-key problem, rate limiting, upstream HTTP error, generic apology.  An
\* executor that threw never leaves the request with an envelope.
C22_CaughtAtBoundary ==
    /\ \A e \in caught :
           /\ pc = "done" /\ Len(res) = 1
           /\ res[1].status = 500
           /\ res[1].details = e.message
           /\ res[1].summary = "" /\ res[1].imageUrl = Null /\ res[1].audioUrl = Null
           /\ \E i \in 1..5 :
                  /\ CauseHolds(e, i)
                  /\ \A j \in 1..(i - 1) : ~CauseHolds(e, j)
                  /\ res[1].error = CauseMessages[i]
           /\ log # <<>> /\ log[Len(log)].ev = "end"
           /\ log[Len(log)].op \in {"plan", "tool", "synth"}
    /\ (pc = "done" /\ log # <<>> /\ log[Len(log)].op = "tool") => caught # Null
    /\ (pc = "done" /\ log # <<>> /\ res[1].status = 200) => caught = Null

\* The planning call failed with an error that speaks of the API key and
\* carries status 429: the API-key message was sent.
C22_Witness ==
    /\ pc = "done" /\ Len(res) = 1
    /\ caught = Some([message |-> {"API key"}, status |-> 429])
    /\ res[1].error = "I'm experiencing an issue connecting to my AI service."

\* C23: the declarations and the switch name the same tools: every declared
\* name labels exactly one case, every case is labelled with a declared name,
\* and a call of a declared name never gets the 'unrecognized function' answer
\* but, given its arguments object, starts the executor bound to the name.
C23_RegistryInSync ==
    /\ \A t \in Tools : Cardinality({ c \in SwitchCases : c[1] = t }) = 1
    /\ \A c \in SwitchCases : c[1] \in Tools
    /\ \A fc \in call : NameRegistered(fc.name) =>
           /\ \A i \in DOMAIN res :
                  res[i].error # "AI requested an unrecognized function."
                  /\ res[i].status # 400
           /\ fc.args.defined =>
                  /\ Cardinality(Started("tool")) = 1
                  /\ \A i \in Started("tool") : log[i].fn = BoundExecutor(fc.name.chars)

\* The image tool was called by its declared name and its executor started.
C23_Witness ==
    /\ Chose("generate_image_tool") /\ pc = "tool" /\ pending.fn = "generateImage"

\* A series whose dates never descend.
NonDecreasing(series) == \A i, j \in DOMAIN series : i < j => series[i] <= series[j]

\* C27 (as claimed): a mock executor (announcements, sentiment, mock
\* historical data), once started, always returns a success outcome with the
\* data field of its tool; the mock historical series has exactly 30 points in
\* non-decreasing order of date, and the envelope carries it as
\* historicalStockData.
C27_MocksConform ==
    (/\ \E t \in { "get_bursa_announcements", "analyze_social_sentiment",
                     "get_bursa_historical_data" } : Chose(t)
     /\ Started("tool") # {} /\ pc # "tool") =>
        \E out \in toolResponse : \A fc \in call :
            /\ "error" \notin out.has
            /\ DataFieldOf(fc.name.chars) \in out.has
            /\ "text" \in out.has
            /\ Chose("get_bursa_historical_data") =>
                   /\ Len(out.historical_data) = 30
                   /\ NonDecreasing(out.historical_data)
                   /\ Enveloped => res[1].historicalStockData = Some(out.historical_data)

\* The calls of chat.sendMessage the request has made.
ModelCalls == { i \in DOMAIN log : log[i].ev = "start" /\ log[i].fn = "sendMessage" }

\* C30 (as claimed): a finished query has made exactly one model call when no
\* executor was started, and exactly two when one was; the second call is a
\* function response that carries the name of the tool the model chose.
C30_ModelCallCount ==
    (pc = "done" /\ log # <<>>) =>
        /\ Started("tool") = {} => Cardinality(ModelCalls) = 1
        /\ Started("tool") # {} =>
               /\ Cardinality(ModelCalls) = 2
               /\ \A i \in Started("synth") : \A fc \in call :
                      /\ log[i].req[1] = "function_response"
                      /\ log[i].req[2] = fc.name.chars

\* C26: a request to /ocr gets one response.  Without a usable file it is
\* answered 400 with an error and performOcr is not called; with a file
\* performOcr is called once and its outcome is the body of the response:
\* status 200 and the extracted text when the outcome has no error (the
\* provider returned parsed results), status 500 and the error otherwise;
\* no body holds both extractedText and error.
C26_OcrDelegates ==
    /\ [](/\ Len(ocrRes) <= 1
          /\ pc = "ocr" => ocrRes = <<>> /\ pending.fn = "performOcr"
          /\ pc = "ocrDone" =>
                 /\ Len(ocrRes) = 1
                 /\ ("error" \in ocrRes[1].body.has) # ("extractedText" \in ocrRes[1].body.has)
                 /\ "error" \in ocrRes[1].body.has => ocrRes[1].body.error # ""
                 /\ IF pending.fn = "performOcr"
                    THEN /\ ocrRes[1].status = (IF "error" \in ocrRes[1].body.has
                                                THEN 500 ELSE 200)
                         /\ "extractedText" \in ocrRes[1].body.has <=>
                                (pending.req # <<>> /\ response.kind = "ok"
                                 /\ response.items # <<>>)
                    ELSE /\ ocrRes[1].status = 400
                         /\ "error" \in ocrRes[1].body.has
                         /\ response = NoReply)
    /\ [][\A file \in {"none", "nobuffer"} :
             OcrReceive(file) =>
                 /\ pc' = "ocrDone" /\ pending'.fn # "performOcr"
                 /\ ocrRes'[1].status = 400]_vars
    /\ [][(pc = "ocr" /\ pc' = "ocrDone") =>
             ocrRes' = <<JsonResponse(ocrRes'[1].status,
                                     performOcr(pending.key, response').out)>>]_vars

\* The OCR provider answered without parsed results: /ocr answered 500.
C26_Witness ==
    /\ pc = "ocrDone" /\ pending.req # <<>> /\ response.kind = "ok"
    /\ response.items = <<>>
    /\ ocrRes[1].status = 500
    /\ ocrRes[1].body.error = "Could not extract text from image. No parsed results."

\* A body that /economic-data must refuse: no indicator code or one outside
\* 'CPI', 'PPI', 'FOMC', 'interest_rate', 'GDP' (as written), or a bad date.
EconBodyInvalid(body) ==
    \/ body.indicatorCode \notin {"CPI", "PPI", "FOMC", "interest_rate", "GDP"}
    \/ body.startDate < 0 \/ body.endDate < 0

\* C24: a request to /economic-data makes no model call and gets one
\* response.  A body that fails validation is answered 400 and the executor is
\* not called; for any other body the macro-indicator executor is called once
\* and the response is its outcome with status 200 when the outcome has no
\* error (served from the cache or from a non-empty provider payload), and
\* status 500 with the error message of the outcome, and nothing else,
\* otherwise.
C24_EconBypassesModel ==
    /\ [](pc \in {"econ", "econDone"} =>
            /\ log = <<>> /\ call = Null /\ res = <<>>
            /\ Len(econRes) <= 1
            /\ pc = "econ" => econRes = <<>> /\ pending.fn = "getEconomicIndicatorData"
            /\ pc = "econDone" =>
                   /\ Len(econRes) = 1
                   /\ IF pending.fn = "getEconomicIndicatorData"
                      THEN /\ econRes[1].status =
                                 (IF "error" \in econRes[1].body.has THEN 500 ELSE 200)
                           /\ "error" \in econRes[1].body.has =>
                                  /\ econRes[1].body.has = {"error"}
                                  /\ econRes[1].body.error # ""
                           /\ "error" \notin econRes[1].body.has <=>
                                  \/ pending.cached # Null
                                  \/ /\ pending.req # <<>> /\ response.kind = "ok"
                                     /\ response.items # <<>>
                           /\ "error" \notin econRes[1].body.has =>
                                  /\ "historical_economic_data" \in econRes[1].body.has
                                  /\ econRes[1].body.indicator = pending.args.a
                      ELSE /\ econRes[1].status = 400
                           /\ "error" \in econRes[1].body.has
                           /\ response = NoReply)
    /\ [][\A body \in EconBodies :
             EconReceive(body) =>
                 IF EconBodyInvalid(body)
                 THEN pc' = "econDone" /\ pending' = NoPending
                 ELSE pc' = "econ" /\ pending'.args.a = body.indicatorCode]_vars
    /\ [][(pc = "econ" /\ pc' = "econDone") =>
             LET out == getEconomicIndicatorData(
                            pending.args.a, pending.args.countryCode,
                            pending.args.startDate, pending.args.endDate,
                            pending.cached, pending.key, response').out
             IN  econRes'[1].body = IF "error" \in out.has THEN ErrorBody(out.error)
                                    ELSE out]_vars

\* A request to /economic-data was served from the cache.
C24_Witness ==
    /\ pc = "econDone" /\ pending.cached # Null
    /\ econRes[1].status = 200 /\ pending.req = <<>>

\* The cache key of the arguments of a macro-indicator lookup.
KeyOf(p) ==
    CacheKey(p.args.a, p.args.countryCode, p.args.startDate, p.args.endDate)

\* This step begins a macro-indicator lookup, from /analyze or /economic-data.
MacroBegins ==
    /\ pending'.fn = "getEconomicIndicatorData"
    /\ \/ pc = "plan" /\ pc' = "tool"
       \/ pc # "econ" /\ pc' = "econ"

\* C28: a macro-indicator lookup that begins while the cache holds an entry
\* for its four arguments, not yet past its time-to-live, is served that
\* entry: it makes no provider call and what it returns to /analyze, or sends
\* from /economic-data, is equal to the stored payload.
C28_ReadThrough ==
    /\ [][(/\ MacroBegins
            /\ KeyOf(pending') \in DOMAIN cache
            /\ ttl[KeyOf(pending')] >= 0) =>
               /\ pending'.cached = Some(cache[KeyOf(pending')])
               /\ pending'.req = <<>>]_vars
    /\ []((pending.fn = "getEconomicIndicatorData" /\ pending.cached # Null) =>
             /\ pending.req = <<>>
             /\ \A i \in Started("tool") : log[i].req = <<>>
             /\ response = NoReply
             /\ pc = "synth" => toolResponse = pending.cached
             /\ pc = "econDone" =>
                    \E v \in pending.cached : econRes = <<JsonResponse(200, v)>>)

\* A lookup was served an entry that had aged without expiring.
C28_Witness ==
    /\ pc = "synth" /\ pending.fn = "getEconomicIndicatorData"
    /\ pending.cached # Null /\ toolResponse = pending.cached
    /\ KeyOf(pending) \in DOMAIN ttl
    /\ ttl[KeyOf(pending)] >= 0 /\ ttl[KeyOf(pending)] < 3600

\* C29: an entry is written with 3600 seconds to live.  A lookup that begins
\* when more than that has passed since the entry was written is a miss and
\* (with the credential set) goes to the provider; a lookup is served from
\* the cache only if its entry is within its time-to-live.
C29_EntriesExpire ==
    /\ [](DOMAIN ttl = DOMAIN cache /\ \A k \in DOMAIN ttl : ttl[k] <= 3600)
    /\ [][\A k \in DOMAIN cache' :
             (k \notin DOMAIN cache \/ cache'[k] # cache[k] \/ ttl'[k] > ttl[k]) =>
                 ttl'[k] = 3600]_vars
    /\ [][(/\ MacroBegins
            /\ KeyOf(pending') \in DOMAIN cache
            /\ ttl[KeyOf(pending')] < 0) =>
               /\ pending'.cached = Null
               /\ pending'.key => pending'.req # <<>>]_vars
    /\ [][(MacroBegins /\ pending'.cached # Null) =>
               /\ KeyOf(pending') \in DOMAIN cache
               /\ ttl[KeyOf(pending')] >= 0]_vars

\* A lookup found its entry past its time-to-live and went to the provider.
C29_Witness ==
    /\ pc = "tool" /\ pending.fn = "getEconomicIndicatorData"
    /\ KeyOf(pending) \in DOMAIN cache /\ ttl[KeyOf(pending)] < 0
    /\ pending.cached = Null /\ pending.req # <<>>

\* The envelope a request with locals `l` sent is the one its own exchanges
\* give: the summary is the text the model gave it, each side channel is set
\* from the outcome of the tool the model chose for it and from nothing else,
\* audioUrl from its own audio step, and its log holds the calls of its own
\* executor only.
AnswerIsOwn(l) ==
    /\ \A i \in DOMAIN l.log :
           (l.log[i].ev = "start" /\ l.log[i].op = "tool") =>
               \E fc \in l.call : l.log[i].fn = ExecutorOf(fc.name.chars)
    /\ \A out \in l.toolResponse : \E fc \in l.call :
           "error" \in out.has \/ DataFieldOf(fc.name.chars) \in out.has
    /\ (l.pc = "done" /\ Len(l.res) = 1 /\ l.res[1].status = 200) =>
           LET r == l.res[1]
               Field(t, f) ==
                   { out \in l.toolResponse :
                       /\ \E fc \in l.call : fc.name = JsString(<<t>>)
                       /\ "error" \notin out.has /\ f \in out.has }
           IN  /\ r.summary = (IF l.call = Null THEN l.planText
                               ELSE l.finalResponseText)
               /\ r.imageUrl =
                      { out.imageUrl : out \in Field("generate_image_tool", "imageUrl") }
               /\ r.articles =
                      { out.articles : out \in
                          { o \in Field("fetch_news", "articles") : Len(o.articles) > 0 } }
               /\ r.historicalStockData =
                      { out.historical_data : out \in
                          Field("get_historical_stock_data", "historical_data") }
               /\ r.historicalEconomicData =
                      { out.historical_economic_data : out \in
                          Field("get_economic_indicator_data", "historical_economic_data") }
               /\ r.audioUrl =
                      { a.audioUrl : a \in
                          { x \in l.audioResult :
                              "audioUrl" \in x.has /\ "error" \notin x.has } }

C31_SeriesWithinRange ==
    probe.op = "chartData" =>
        /\ NonDecreasing(probe.chartData)
        /\ \A i \in DOMAIN probe.chartData :
               /\ probe.startDate > 0 => probe.chartData[i] >= probe.startDate
               /\ probe.endDate > 0 => probe.chartData[i] <= probe.endDate

\* C32 (as claimed): the list of articles fetchNews returns has at most
\* MaxArticles entries, however many articles the provider's response holds.
C32_ArticlesBounded ==
    probe.op = "fetchNews" => Len(probe.run.out.articles) <= MaxArticles

C34_FomcAlwaysUnitedStates ==
    (/\ probe.op = "getEconomicIndicatorData"
     /\ probe.indicatorCode \in {"FOMC", "fomc", "Fomc"}) =>
        LET run == probe.run
            asked == IF probe.countryCode = Undefined THEN "united states"
                     ELSE probe.countryCode
            k == << probe.indicatorCode, asked, probe.startDate, probe.endDate >>
        IN  /\ ~run.threw
            /\ run.req # <<>> =>
                   run.req = <<"tradingeconomics", "united states", "interest rate">>
            /\ "country" \in run.out.has => run.out.country = "united states"
            /\ "error" \notin run.out.has =>
                   /\ run.req # <<>>
                   /\ run.out.country = "united states"
                   /\ DOMAIN cache = {k}
                   /\ cache[k] = run.out

\* A lookup of fomc for Malaysia returned the series of the united states and
\* stored it under the key that names Malaysia.
C34_Witness ==
    /\ probe.op = "getEconomicIndicatorData"
    /\ probe.indicatorCode = "fomc" /\ probe.countryCode = "Malaysia"
    /\ probe.run.out.country = "united states"
    /\ probe.run.out.historical_economic_data # <<>>
    /\ << "fomc", "Malaysia", probe.startDate, probe.endDate >> \in DOMAIN cache

\* C35: through /economic-data the executor never answers 'Unsupported
\* economic indicator': a code other than the five of the schema, as written,
\* is answered 400 and no executor runs; for each of the five the executor's
\* switch has a query term.
C35_UnsupportedUnreachable ==
    /\ [](/\ \A i \in DOMAIN econRes :
                econRes[i].body.error # "Unsupported economic indicator."
          /\ pc \in {"econ", "econDone"} /\ pending.fn = "getEconomicIndicatorData" =>
                /\ pending.args.a \in {"CPI", "PPI", "FOMC", "interest_rate", "GDP"}
                /\ Endpoint(ToLowerCase(pending.args.a)) # Undefined
                /\ (pending.key /\ pending.cached = Null) => pending.req # <<>>)
    /\ [][\A body \in EconCodeBodies :
            (/\ EconReceive(body)
             /\ body.indicatorCode \notin {"CPI", "PPI", "FOMC", "interest_rate", "GDP"}) =>
                /\ pc' = "econDone"
                /\ econRes' = << JsonResponse(400, ErrorBody("validation")) >>
                /\ pending' = NoPending
         ]_vars

\* The series of GDP was fetched and returned through /economic-data.
C35_Witness ==
    /\ pc = "econDone" /\ Len(econRes) = 1 /\ econRes[1].status = 200
    /\ pending.args.a = "GDP" /\ pending.req # <<>>
    /\ econRes[1].body.historical_economic_data # <<>>

\* The body has no query, a query that is no string, or one of whitespace only.
NoUsableQuery(body) ==
    \/ body.query.typ # "string"
    \/ \A i \in DOMAIN body.query.chars : body.query.chars[i] \in Whitespace

\* C36: a request to /analyze whose body has no query, a query that is not a
\* string or a query that is empty once trimmed is answered 400 in the step
\* that receives it, with no call to the model, an executor or the audio
\* provider begun; a request answered 400 for its body has made no call.
C36_BadBodyRejected ==
    /\ []((pc = "done" /\ Len(res) = 1 /\ res[1].status = 400
           /\ res[1].error = "validation") =>
              /\ log = <<>>
              /\ call = Null /\ toolResponse = Null /\ audioResult = Null
              /\ pending = NoPending)
    /\ [][\A body \in Bodies :
            (Receive(body) /\ NoUsableQuery(body)) =>
                /\ pc' = "done"
                /\ Len(res') = 1 /\ res'[1].status = 400
                /\ res'[1].error = "validation"
                /\ log' = <<>>
         ]_vars

\* After a request that ran a tool and audio, a body with no usable query was
\* answered 400.
C36_Witness ==
    /\ pc = "done" /\ Len(res) = 1 /\ res[1].status = 400
    /\ res[1].error = "validation" /\ log = <<>>
    /\ DOMAIN cache # {}

\* C37 (as claimed): with its credential set, the historical-series executor
\* given a period other than daily, weekly or monthly returns an error outcome
\* that names the three periods and calls no provider; with the period omitted
\* it asks the provider for the daily series.
C37_InvalidPeriodRejected ==
    (probe.op = "getHistoricalStockData" /\ "ALPHA_VANTAGE_API_KEY" \in env) =>
        /\ probe.period \notin {Undefined, "daily", "weekly", "monthly"} =>
               /\ ~probe.run.threw
               /\ probe.run.req = <<>>
               /\ "error" \in probe.run.out.has
               /\ probe.run.out.error =
                      "Invalid period specified for historical stock data. Choose 'daily', 'weekly', or 'monthly'."
               /\ "historical_data" \notin probe.run.out.has
        /\ probe.period = Undefined =>
               /\ ~probe.run.threw
               /\ probe.run.req # <<>>
               /\ probe.run.req[2] = "TIME_SERIES_DAILY_ADJUSTED"

\* The index among all fetches of the j-th fetch that was fulfilled.
NthFulfilled(promises, j) ==
    CHOOSE i \in DOMAIN promises :
        /\ promises[i].status = "fulfilled"
        /\ Cardinality({ k \in 1..i : promises[k].status = "fulfilled" }) = j

\* C38: getMultipleStocksData returns only when every fetch has settled; it
\* is then fulfilled, never rejected, whichever fetches failed; what it
\* returns holds one result for each fetch that was fulfilled and nothing
\* else, in the order of the input symbols.
C38_PartialFailureTolerated ==
    /\ [](/\ probe.op # "rejected"
          /\ probe.op = "fulfilled" =>
                /\ \A i \in DOMAIN probe.promises :
                       probe.promises[i].status # "pending"
                /\ Len(probe.value) =
                       Cardinality({ i \in DOMAIN probe.promises :
                                       probe.promises[i].status = "fulfilled" })
                /\ \A j \in DOMAIN probe.value :
                       LET i == NthFulfilled(probe.promises, j) IN
                       /\ probe.value[j] = probe.promises[i].value
                       /\ probe.value[j].symbol = probe.symbols[i])
    /\ [][(probe.op = "awaiting" /\ probe'.op # "awaiting") =>
             /\ \A i \in DOMAIN probe.promises : probe.promises[i].status # "pending"
             /\ probe'.op = "fulfilled"
         ]_vars

\* Of three fetches the second failed: the results of the first and the third
\* were returned, in that order.
C38_Witness ==
    /\ probe.op = "fulfilled"
    /\ probe.symbols = <<"MSFT", "AAPL", "AAPL">>
    /\ probe.promises[1].status = "fulfilled"
    /\ probe.promises[2].status = "rejected"
    /\ probe.promises[3].status = "fulfilled"
    /\ Len(probe.value) = 2
    /\ probe.value[1].symbol = "MSFT" /\ probe.value[1].data = <<1, 2>>
    /\ probe.value[2].symbol = "AAPL" /\ probe.value[2].data = <<1>>


====
